---------------------------- MODULE Spec2Model ----------------------------
(***************************************************************************)
(* A state-machine model of code/utils/main.py: the Dataset loader, the    *)
(* Group comparator and the Analysis facade (set_param / get_param).       *)
(*                                                                         *)
(* Python values are modelled as follows.                                  *)
(*   - None is the record [kind |-> "none"]; a str, a list, a list of      *)
(*     lists and a list of tuples carry the kinds "str", "list", "nested"  *)
(*     and "tuples", so that isinstance tests of the source are tests of   *)
(*     the kind field.                                                     *)
(*   - a float is NaN, +Inf, or an exact fraction [n |-> .., d |-> ..].    *)
(*   - a table of the registry is a function of (row label, column label). *)
(***************************************************************************)
EXTENDS Integers, Sequences, FiniteSets, TLC

VARIABLES
    \* ---- the project directory (environment of the loader) ----
    hasDocument,      \* os.path.isdir(dirpath/document)
    files,            \* name -> the file document/<name>.<ext>, or Absent
    fsVer,            \* number of changes made to the directory so far
    \* ---- Dataset ----
    data,             \* self._data: name -> version of the file it was read from
    valid_dfs_names,  \* self._valid_dfs_names
    color_map,        \* self._color_map
    initialized,      \* self._initialized
    last,             \* the last call made on the Dataset and how it ended
    \* ---- Analysis ----
    catRows,          \* the row order of the category table (sample ids)
    inst,             \* the attributes of the Analysis instance (Unset: none)
    tmp_dict,         \* self._tmp_dict: the bundles get_param reports
    call,             \* the last call made on the Analysis and how it ended
    nCalls,           \* the number of set_param calls made
    \* ---- the tools of Preprocessing, Correlation, Regression, Analysis ----
    vif,              \* a run of Preprocessing.calculate_vif
    scaled,           \* a call of Preprocessing.scale
    corrRun,          \* a run of the correlation pipeline
    regRun,           \* a run of the regression pipeline
    enr               \* the enrichment results and their adapter records

loaderVars == <<hasDocument, files, fsVer, data, valid_dfs_names, color_map,
                initialized, last>>

analysisVars == <<catRows, inst, tmp_dict, call, nCalls>>

toolVars == <<vif, scaled, corrRun, regRun, enr>>

vars == <<loaderVars, analysisVars, toolVars>>

---------------------------------------------------------------------------
(* Bounds of the model *)

MaxFileChanges == 1
MaxUpdateNames == 2
MaxCalls == 2

---------------------------------------------------------------------------
(* Generic helpers *)

Range(s) == {s[i] : i \in DOMAIN s}

Injective(s) == \A i, j \in DOMAIN s : i # j => s[i] # s[j]

\* F applied to the value of v, v being computed once.
Bind(v, F(_)) == CHOOSE y \in {F(x) : x \in {v}} : TRUE

\* The sequences of at most n distinct members of S.
SeqsUpTo(S, n) == {s \in UNION {[1..k -> S] : k \in 0..n} : Injective(s)}

---------------------------------------------------------------------------
(* The project directory *)

OmicNames == {"category", "color", "prot", "rna"}

Absent == [ext |-> "none", readable |-> FALSE]

Exts == {"csv", "txt", "tsv", "maf", "pickle", "feather", "xlsx", "xtsv"}

File(e, r) == [ext |-> e, readable |-> r]

\* The files the directory is populated with: a readable and a malformed
\* csv, a readable pickle, a spreadsheet, and a file named <name>.xtsv.
FileStates ==
    {Absent, File("csv", TRUE), File("csv", FALSE), File("pickle", TRUE),
     File("xlsx", TRUE), File("xtsv", TRUE)}

ListOrder == <<"category", "color", "prot", "rna">>

\* os.listdir(document) mapped through f.split('.')[0]: the names that have
\* a file, in the order the operating system lists them.
Listing(fs) == SelectSeq(ListOrder, LAMBDA n : fs[n] # Absent)

---------------------------------------------------------------------------
(* Dataset *)

\* The reader the chain of endswith tests selects.  'tsv' and 'maf' are
\* tested without the dot, so any extension ending in those letters is read
\* as a delimited table.
Reader(ext) ==
    IF ext = "csv" THEN "read_csv"
    ELSE IF ext \in {"txt", "tsv", "maf", "xtsv"} THEN "read_table"
    ELSE IF ext = "pickle" THEN "read_pickle"
    ELSE IF ext = "feather" THEN "read_feather"
    ELSE "unsupported"

\* _get_df_path followed by _get_dataframe: how loading one name ends.
GetDataframe(fs, omic_name) ==
    IF omic_name \notin DOMAIN fs \/ fs[omic_name] = Absent
    THEN "ValueError"                       \* glob(...)[0] fails
    ELSE IF Reader(fs[omic_name].ext) = "unsupported"
    THEN "ValueError"                       \* raise ValueError(file type)
    ELSE IF ~fs[omic_name].readable
    THEN "ReadError"                        \* the pandas reader raises
    ELSE "ok"

\* The loop of _load_dataset: try _get_dataframe, continue on any exception.
RECURSIVE LoadLoop(_, _, _, _, _)
LoadLoop(fs, ver, names, reg, valid) ==
    IF names = <<>> THEN [data |-> reg, valid |-> valid]
    ELSE LET n == Head(names)
             got == GetDataframe(fs, n) = "ok"
             reg2 == IF got
                     THEN [m \in DOMAIN reg \cup {n} |->
                              IF m = n THEN ver ELSE reg[m]]
                     ELSE reg
             valid2 == IF got /\ n \notin Range(valid)
                       THEN Append(valid, n) ELSE valid
         IN LoadLoop(fs, ver, Tail(names), reg2, valid2)

\* _load_dataset: the loop, then the colour map when 'color' was asked for.
LoadDataset(fs, ver, names, reg, valid, cmap) ==
    LET r == LoadLoop(fs, ver, names, reg, valid)
    IN IF "color" \in Range(names)
       THEN IF {"color", "category"} \subseteq DOMAIN r.data
            THEN [data |-> r.data, valid |-> r.valid,
                  color_map |-> [built |-> TRUE, color |-> r.data["color"],
                                 category |-> r.data["category"]],
                  outcome |-> "ok"]
            ELSE [data |-> r.data, valid |-> r.valid, color_map |-> cmap,
                  outcome |-> "KeyError"]
       ELSE [data |-> r.data, valid |-> r.valid, color_map |-> cmap,
             outcome |-> "ok"]

EmptyDict == [x \in {} |-> 0]

NoColorMap == [built |-> FALSE]

None == [kind |-> "none"]

\* An attribute that has not been assigned.
Unset == [kind |-> "unset"]

\* No call has been made on the Analysis yet.
NoCall == [op |-> "none"]

\* A tool that has not been called.
Idle == [pc |-> "idle"]

ToolsIdle ==
    /\ vif = Idle
    /\ scaled = Idle
    /\ corrRun = Idle
    /\ regRun = Idle
    /\ enr = Idle

\* A loader that treats a missing document folder as an empty one.
ListDocument_MissingIsEmpty(hasDoc, fs) ==
    IF hasDoc THEN [raised |-> FALSE, listings |-> {Listing(fs)}]
    ELSE [raised |-> FALSE, listings |-> {<<>>}]

\* os.listdir(os.path.join(dirpath, 'document')) of __init__ and update: it
\* raises FileNotFoundError when the folder does not exist.
ListDocument(hasDoc, fs) ==
    IF hasDoc THEN [raised |-> FALSE, listings |-> {Listing(fs)}]
    ELSE [raised |-> TRUE, listings |-> {<<>>}]

\* Dataset.__init__ (lines 35-52) on the project directory.
DatasetConstruct ==
    /\ last.op = "none"
    /\ UNCHANGED <<hasDocument, files, fsVer>>
    /\ LET ls == ListDocument(hasDocument, files)
       IN \E names \in ls.listings :
        IF ls.raised
        THEN /\ data' = EmptyDict
             /\ valid_dfs_names' = <<>>
             /\ color_map' = NoColorMap
             /\ initialized' = FALSE
             /\ last' = [op |-> "init", names |-> <<>>,
                         outcome |-> "FileNotFoundError"]
        ELSE LET r == LoadDataset(files, fsVer, names, EmptyDict, <<>>, NoColorMap)
             IN /\ data' = r.data
                /\ valid_dfs_names' = r.valid
                /\ color_map' = r.color_map
                /\ initialized' = (r.outcome = "ok")
                /\ last' = [op |-> "init", names |-> names, outcome |-> r.outcome]

\* Dataset(dirpath)
DatasetInit ==
    /\ DatasetConstruct
    /\ UNCHANGED <<analysisVars, toolVars>>

UpdateWords == {"color", "prot", "nofile", "all"}

\* Dataset.update(*name)
Update(name) ==
    /\ initialized
    /\ UNCHANGED <<hasDocument, files, fsVer, initialized, analysisVars,
                   toolVars>>
    /\ LET ls == ListDocument(hasDocument, files)
           relist == name = <<>> \/ "all" \in Range(name)
       IN \E names \in (IF relist THEN ls.listings ELSE {name}) :
           IF relist /\ ls.raised
           THEN /\ UNCHANGED <<data, valid_dfs_names, color_map>>
                /\ last' = [op |-> "update", names |-> <<>>,
                            outcome |-> "FileNotFoundError"]
           ELSE LET r == LoadDataset(files, fsVer, names, data,
                                     valid_dfs_names, color_map)
                IN /\ data' = r.data
                   /\ valid_dfs_names' = r.valid
                   /\ color_map' = r.color_map
                   /\ last' = [op |-> "update", names |-> names,
                               outcome |-> r.outcome]

\* The environment rewrites, adds or removes one file of the directory.
ChangeFile(n, f) ==
    /\ hasDocument
    /\ initialized
    /\ fsVer < MaxFileChanges
    /\ files[n] # f
    /\ files' = [files EXCEPT ![n] = f]
    /\ fsVer' = fsVer + 1
    /\ last' = [op |-> "env", names |-> <<>>, outcome |-> "ok"]
    /\ UNCHANGED <<hasDocument, data, valid_dfs_names, color_map, initialized,
                   analysisVars, toolVars>>

\* The files the environment touches after construction.
ChangedNames == {"color", "prot"}

\* The states the category file is created in.
CategoryStates == {Absent, File("csv", TRUE), File("csv", FALSE)}

LoadInit ==
    /\ hasDocument \in BOOLEAN
    /\ files \in [OmicNames -> FileStates]
    /\ files["rna"] = Absent
    /\ files["category"] \in CategoryStates
    /\ ~hasDocument => \A n \in OmicNames : files[n] = Absent
    /\ fsVer = 0
    /\ data = EmptyDict
    /\ valid_dfs_names = <<>>
    /\ color_map = NoColorMap
    /\ initialized = FALSE
    /\ last = [op |-> "none", names |-> <<>>, outcome |-> "ok"]
    /\ catRows = <<>>
    /\ inst = Unset
    /\ tmp_dict = Unset
    /\ call = NoCall
    /\ nCalls = 0
    /\ ToolsIdle

LoadNext ==
    \/ DatasetInit
    \/ \E name \in SeqsUpTo(UpdateWords, MaxUpdateNames) : Update(name)
    \/ \E n \in ChangedNames, f \in FileStates : ChangeFile(n, f)

SpecLoad == LoadInit /\ [][LoadNext]_vars

---------------------------------------------------------------------------
(* Python values *)

Str(s) == [kind |-> "str", v |-> s]
List(q) == [kind |-> "list", v |-> q]       \* a list of str
Nested(q) == [kind |-> "nested", v |-> q]   \* a list of lists of str
Tuples(q) == [kind |-> "tuples", v |-> q]   \* a list of tuples of str
Dict(f) == [kind |-> "dict", v |-> f]
Number(x) == [kind |-> "num", v |-> x]
Bool(b) == [kind |-> "bool", v |-> b]

\* a == b on two Python values
PyEq(a, b) ==
    /\ a.kind = b.kind
    /\ a.kind \in {"none", "unset"} \/ a.v = b.v

\* bool(x)
Truthy(x) ==
    CASE x.kind \in {"none", "unset"} -> FALSE
      [] x.kind = "str" -> x.v # ""
      [] x.kind \in {"list", "nested", "tuples"} -> Len(x.v) > 0
      [] x.kind = "dict" -> DOMAIN x.v # {}
      [] x.kind = "num" -> x.v # 0
      [] x.kind = "bool" -> x.v

RECURSIVE Flatten(_)
Flatten(qq) == IF qq = <<>> THEN <<>> ELSE Head(qq) \o Flatten(Tail(qq))

\* The position of the first occurrence of x in q (Len(q) + 1 when absent).
RECURSIVE IndexOf(_, _)
IndexOf(q, x) ==
    IF q = <<>> THEN 1
    ELSE IF Head(q) = x THEN 1 ELSE 1 + IndexOf(Tail(q), x)

\* pd.unique: the distinct members in order of first appearance.
RECURSIVE Unique(_)
Unique(q) ==
    IF q = <<>> THEN <<>>
    ELSE LET r == Unique(SubSeq(q, 1, Len(q) - 1))
             x == q[Len(q)]
         IN IF x \in Range(r) THEN r ELSE Append(r, x)

Reverse(q) == [i \in 1..Len(q) |-> q[Len(q) + 1 - i]]

\* '_'.join(labels)
RECURSIVE JoinLabels(_)
JoinLabels(q) ==
    IF Len(q) = 1 THEN q[1] ELSE q[1] \o "_" \o JoinLabels(Tail(q))

---------------------------------------------------------------------------
(* Floats: NaN, +Inf, or an exact fraction n/d with d > 0 in lowest terms *)

NaN == [k |-> "nan", n |-> 0, d |-> 0]
Inf == [k |-> "inf", n |-> 1, d |-> 0]

Abs(x) == IF x < 0 THEN -x ELSE x

RECURSIVE Gcd(_, _)
Gcd(a, b) == IF b = 0 THEN a ELSE Gcd(b, a % b)

Frac(n, d) ==
    LET g == Gcd(Abs(n), Abs(d))
        sg == IF d < 0 THEN -1 ELSE 1
    IN [k |-> "num", n |-> sg * (n \div g), d |-> sg * (d \div g)]

Num(i) == Frac(i, 1)

IsNegative(x) == x.k = "num" /\ x.n < 0

\* a / b for operands that are NaN or not negative
FDiv(a, b) ==
    IF a.k = "nan" \/ b.k = "nan" THEN NaN
    ELSE IF a.k = "inf" THEN (IF b.k = "inf" THEN NaN ELSE Inf)
    ELSE IF b.k = "inf" THEN Num(0)
    ELSE IF b.n = 0 THEN (IF a.n = 0 THEN NaN ELSE Inf)
    ELSE Frac(a.n * b.d, a.d * b.n)

\* a - b for finite operands or NaN
FSub(a, b) ==
    IF a.k # "num" \/ b.k # "num" THEN NaN
    ELSE Frac(a.n * b.d - b.n * a.d, a.d * b.d)

\* -a
FNeg(a) == IF a.k = "num" THEN Frac(-a.n, a.d) ELSE a

---------------------------------------------------------------------------
(* The tables of the registry the comparator works on *)

NumSamples == 4

SampleIds == 1..NumSamples

SampleName(i) == "s" \o ToString(i)

\* The label columns of the category table.
CategoryColumns == {"g1", "g2", "group_name"}

\* g2 is missing for the last sample; the other columns are complete.
HasLabel(col, i) == col = "g2" => i < NumSamples

LabelOf(col, i) ==
    IF col = "g1" THEN (IF i % 2 = 1 THEN "A" ELSE "B")
    ELSE IF col = "g2"
         THEN (IF i % 3 = 1 THEN "X" ELSE IF i % 3 = 2 THEN "Y" ELSE "Z")
    ELSE (IF i <= 2 THEN "P" ELSE "Q")

DatasetNames == {"prot", "rna"}

\* df.index of a dataset table
DataIndex(d) == IF d = "prot" THEN <<"f1", "f2", "f3">> ELSE <<"f1", "r2">>

\* df.columns of a dataset table: rna has no column for the last sample.
DataColumns(d) == IF d = "prot" THEN SampleIds ELSE SampleIds \ {NumSamples}

\* ~isnan(df.loc[f, sample])
Present(d, f, i) ==
    /\ i \in DataColumns(d)
    /\ IF d = "prot"
       THEN CASE f = "f1" -> TRUE
              [] f = "f2" -> i % 2 = 0
              [] f = "f3" -> i <= 2
       ELSE CASE f = "f1" -> TRUE
              [] f = "r2" -> i >= 2

\* df.loc[f, sample]: prot is positive, rna has a negative entry.
Val(d, f, i) ==
    IF d = "prot"
    THEN CASE f = "f1" -> i
           [] f = "f2" -> i + 1
           [] f = "f3" -> i + 5
    ELSE CASE f = "f1" -> i - 2
           [] f = "r2" -> i

\* The column labels of a table of the registry, as strings.
ColumnNames(name) ==
    IF name = "category" THEN CategoryColumns
    ELSE IF name \in DatasetNames THEN {SampleName(i) : i \in DataColumns(name)}
    ELSE {}

---------------------------------------------------------------------------
(* Dataset._handle_group *)

\* The label columns a group_name selects.
GroupCols(group_name) ==
    IF group_name.kind = "str" THEN <<group_name.v>> ELSE group_name.v

\* self._data[file_type][group_name].dropna(): one row per sample that has
\* every label, in the row order of the category table.
LabelRows(rows, cols) ==
    LET keep == SelectSeq(rows,
                   LAMBDA i : \A k \in DOMAIN cols : HasLabel(cols[k], i))
    IN [j \in 1..Len(keep) |->
           [s |-> keep[j],
            labs |-> [k \in DOMAIN cols |-> LabelOf(cols[k], keep[j])]]]

ColValues(rows, k) == {rows[j].labs[k] : j \in DOMAIN rows}

\* part_element seen column by column.  A flat list is zipped with the
\* columns one str per column (np.unique of a str is that str).
PerColumn(pe) ==
    IF pe.kind = "list" THEN [k \in DOMAIN pe.v |-> <<pe.v[k]>>] ELSE pe.v

Min2(a, b) == IF a < b THEN a ELSE b

\* Lines 161-163: some zipped filter list has a value its column lacks.
WrongElements(rows, cols, pe) ==
    \E k \in 1..Min2(Len(cols), Len(PerColumn(pe))) :
        \E v \in Range(PerColumn(pe)[k]) : v \notin ColValues(rows, k)

\* The values of list(product(*part_element)), as np.isin flattens them.
\* (The labels of the category table are single characters, so the
\* product of a flat list of labels is made of those labels.)
ProductValues(pe) ==
    LET pc == PerColumn(pe)
    IN IF \E k \in DOMAIN pc : pc[k] = <<>> THEN {}
       ELSE UNION {Range(pc[k]) : k \in DOMAIN pc}

\* The values np.isin tests a single label column against.
IsinValues(pe) ==
    IF pe.kind = "list" THEN Range(pe.v) ELSE Range(Flatten(pe.v))

RECURSIVE LexLess(_, _)
LexLess(a, b) ==
    IF a = <<>> THEN FALSE
    ELSE IF a[1] # b[1] THEN a[1] < b[1]
    ELSE LexLess(Tail(a), Tail(b))

RankOf(row, order) ==
    [k \in DOMAIN row.labs |->
        IF k \in DOMAIN order THEN IndexOf(order[k], row.labs[k]) ELSE 0]

RECURSIVE InsertRow(_, _, _)
InsertRow(sorted, row, order) ==
    IF sorted = <<>> THEN <<row>>
    ELSE LET lastRow == sorted[Len(sorted)]
         IN IF LexLess(RankOf(row, order), RankOf(lastRow, order))
            THEN Append(InsertRow(SubSeq(sorted, 1, Len(sorted) - 1), row, order),
                        lastRow)
            ELSE Append(sorted, row)

\* function.sort_custom(df, group_name, part_element): the rows put in the
\* order part_element lists the labels, rows of one label keeping their order.
RECURSIVE SortCustom(_, _)
SortCustom(rows, order) ==
    IF rows = <<>> THEN <<>>
    ELSE InsertRow(SortCustom(SubSeq(rows, 1, Len(rows) - 1), order),
                   rows[Len(rows)], order)

\* Dataset._handle_group(file_type, group_name, part_element)
HandleGroup(rows, file_type, group_name, part_element) ==
    LET cols == GroupCols(group_name)
        group_file == LabelRows(rows, cols)
    IN IF file_type # "category" \/ ~(Range(cols) \subseteq CategoryColumns)
       THEN [outcome |-> "KeyError", rows |-> <<>>]
       ELSE IF ~Truthy(part_element)
       THEN [outcome |-> "ok", rows |-> group_file]
       ELSE IF group_name.kind # "str"
       THEN IF part_element.kind = "tuples"
            THEN \* part_element_use is never bound (line 164 is skipped)
                 [outcome |-> "UnboundLocalError", rows |-> <<>>]
            ELSE IF WrongElements(group_file, cols, part_element)
            THEN [outcome |-> "ValueError", rows |-> <<>>]
            ELSE [outcome |-> "ok",
                  rows |-> SortCustom(
                      SelectSeq(group_file,
                          LAMBDA r : \A k \in DOMAIN r.labs :
                              r.labs[k] \in ProductValues(part_element)),
                      PerColumn(part_element))]
       ELSE [outcome |-> "ok",
             rows |-> SortCustom(
                 SelectSeq(group_file,
                     LAMBDA r : r.labs[1] \in IsinValues(part_element)),
                 <<IF part_element.kind = "list" THEN part_element.v
                   ELSE Flatten(part_element.v)>>)]

---------------------------------------------------------------------------
(* Group: the working dataset and the per-group statistics *)

\* thresh is held in units of 1e-5, the default of Group.__init__.
ThreshScale == 100000

\* The sum of feature f of dataset d over the positions at of the columns g.
RECURSIVE SumAt(_, _, _, _)
SumAt(d, f, g, at) ==
    IF at = {} THEN 0
    ELSE LET j == CHOOSE x \in at : TRUE
         IN Val(d, f, g[j]) + SumAt(d, f, g, at \ {j})

SetMax(S) == CHOOSE x \in S : \A y \in S : y <= x
SetMin(S) == CHOOSE x \in S : \A y \in S : x <= y

\* The positions of cols where feature f of dataset d has a value.
PresentAt(d, f, cols) == {j \in DOMAIN cols : Present(d, f, cols[j])}

RowVals(d, f, cols) == {Val(d, f, cols[j]) : j \in PresentAt(d, f, cols)}

\* Dataset.delete_nan_array(df): unless the row maxima are all one value,
\* the rows whose maximum equals their minimum are dropped (an all-NaN row
\* compares unequal to itself and stays).
DeleteNanArray(d, index, cols) ==
    LET maxes == {SetMax(RowVals(d, f, cols)) :
                     f \in {g \in Range(index) : RowVals(d, g, cols) # {}}}
    IN IF Cardinality(maxes) # 1
       THEN SelectSeq(index, LAMBDA f :
                \/ RowVals(d, f, cols) = {}
                \/ SetMax(RowVals(d, f, cols)) # SetMin(RowVals(d, f, cols)))
       ELSE index

\* function.dropnan(df, thresh): the rows with too few values are dropped;
\* thresh <= 1 is the least fraction of values, thresh > 1 the least count.
DropNan(d, index, cols, thresh) ==
    SelectSeq(index, LAMBDA f :
        LET c == Cardinality(PresentAt(d, f, cols))
        IN IF thresh <= ThreshScale
           THEN Len(cols) > 0 /\ c * ThreshScale >= thresh * Len(cols)
           ELSE c * ThreshScale >= thresh)

\* Lines 269-271: reindex to the samples of group_file, drop the columns
\* without any value, then delete_nan_array and dropnan on the rows.
TmpDataset(d, rows, thresh) ==
    LET wanted == [j \in DOMAIN rows |-> rows[j].s]
        cols == SelectSeq(wanted, LAMBDA i :
                    \E f \in Range(DataIndex(d)) : Present(d, f, i))
        index == DropNan(d, DeleteNanArray(d, DataIndex(d), cols), cols, thresh)
    IN [kind |-> "frame", name |-> d, index |-> index, columns |-> cols]

\* Line 260: the whole table of the registry.
WholeDataset(d) ==
    [kind |-> "frame", name |-> d, index |-> DataIndex(d),
     columns |-> SelectSeq([i \in 1..NumSamples |-> i],
                           LAMBDA i : i \in DataColumns(d))]

\* Line 272: group_file restricted to the columns of the working dataset,
\* the labels of a sample joined with '_'.
JoinedGroupFile(rows, columns) ==
    LET kept == SelectSeq(rows, LAMBDA r : r.s \in Range(columns))
    IN [j \in 1..Len(kept) |->
           [s |-> kept[j].s, label |-> JoinLabels(kept[j].labs)]]

\* Lines 276-280: for one label, the columns of the working dataset of that
\* label which still hold a value (dropna(axis=1, how='all')).
GroupColumns(td, gf, label) ==
    LET mine == SelectSeq(gf, LAMBDA r : r.label = label)
        kept == SelectSeq(mine, LAMBDA r :
                    \E f \in Range(td.index) : Present(td.name, f, r.s))
    IN [j \in 1..Len(kept) |-> kept[j].s]

\* np.count_nonzero(~np.isnan(x), axis=1) of one group matrix
CountValue(td, g) ==
    [r \in DOMAIN td.index |->
        Num(Cardinality(PresentAt(td.name, td.index[r], g)))]

\* np.nanmean(x, axis=1) of one group matrix
MeanValue(td, g) ==
    [r \in DOMAIN td.index |->
        LET at == PresentAt(td.name, td.index[r], g)
        IN IF at = {} THEN NaN
           ELSE Frac(SumAt(td.name, td.index[r], g, at), Cardinality(at))]

\* function.percentage(x, axis=1): the fraction of values that are present
PercentageValue(td, g) ==
    [r \in DOMAIN td.index |->
        IF Len(g) = 0 THEN NaN
        ELSE Frac(Cardinality(PresentAt(td.name, td.index[r], g)), Len(g))]

\* x > thresh for a float x and thresh in units of 1e-5
Above(x, thresh) ==
    \/ x.k = "inf"
    \/ x.k = "num" /\ x.n * ThreshScale > thresh * x.d

\* Lines 362-363: np.any(percentage > thresh, axis=0)
OutIndex(percentage, thresh, n) ==
    [r \in 1..n |-> \E g \in DOMAIN percentage : Above(percentage[g][r], thresh)]

---------------------------------------------------------------------------
(* Group.__group_set_params, __group_cal_values and __table *)

\* Lines 291-298 with the test of line 292 inverted.
SetDividend_Inverted(i) ==
    LET gv == i.group_values.v
    IN IF Len(gv) # 2 THEN i
       ELSE IF ~PyEq(i.dividend, Str(gv[1]))
       THEN [i EXCEPT !.change = Bool(FALSE),
                      !.dividend = Str(gv[1]), !.divisor = Str(gv[2])]
       ELSE [i EXCEPT !.change = Bool(TRUE),
                      !.divisor = Str(gv[1]), !.dividend = Str(gv[2])]

\* Lines 291-298: with two groups, the first group is the dividend only when
\* it is the dividend already held; otherwise the second group becomes it.
SetDividend(i) ==
    LET gv == i.group_values.v
    IN IF Len(gv) # 2 THEN i
       ELSE IF PyEq(i.dividend, Str(gv[1]))
       THEN [i EXCEPT !.change = Bool(FALSE),
                      !.dividend = Str(gv[1]), !.divisor = Str(gv[2])]
       ELSE [i EXCEPT !.change = Bool(TRUE),
                      !.divisor = Str(gv[1]), !.dividend = Str(gv[2])]

\* {k: MCMAP[i] for i, k in enumerate(part_element)}; colour i of MCMAP is
\* the number i.  With an empty _color_map, lines 315-329 build the same map.
DefaultPalette(part_element) ==
    Dict([l \in Range(part_element.v) |-> IndexOf(part_element.v, l)])

\* Lines 299-333, for a registry without a colour table (_color_map = {}).
SetPalette(i) ==
    IF Truthy(i.palette) THEN [inst |-> i, outcome |-> "ok"]
    ELSE IF i.group_name.kind = "list"
            /\ i.part_element_keep_for_palette.kind = "none"
    THEN [inst |-> i, outcome |-> "TypeError"]     \* zip(group_name, None)
    ELSE [inst |-> [i EXCEPT !.palette = DefaultPalette(i.part_element)],
          outcome |-> "ok"]

\* Group.__group_set_params
GroupSetParams(i) == SetPalette(SetDividend(i))

InferenceKind(n) ==
    IF n = 1 THEN "none" ELSE IF n = 2 THEN "two_groups" ELSE "multi_groups"

\* Group.__group_cal_values: the per-group statistics (mean, count and
\* percentage are modelled; the tests of lines 379-407 only by their kind)
\* and the mask of retained features.
GroupCalValues(i) ==
    LET td == i.tmp_dataset
        grp == i.group.v
        pct == [g \in DOMAIN grp |-> PercentageValue(td, grp[g])]
    IN [i EXCEPT
          !.param_values =
              [kind |-> "dict",
               mean |-> [g \in DOMAIN grp |-> MeanValue(td, grp[g])],
               count |-> [g \in DOMAIN grp |-> CountValue(td, grp[g])],
               percentage |-> pct,
               inference_statistics |-> InferenceKind(Len(grp))],
          !.out_index =
              [kind |-> "mask", v |-> OutIndex(pct, i.thresh.v, Len(td.index))]]

ParamValue(pv, method) ==
    CASE method = "mean" -> pv.mean
      [] method = "count" -> pv.count
      [] method = "percentage" -> pv.percentage

\* Lines 413-418: a difference when any statistic is negative, else a quotient.
Ratio(tmp) ==
    LET nega_annot == \E g \in DOMAIN tmp : \E r \in DOMAIN tmp[g] :
                          IsNegative(tmp[g][r])
    IN [nega_annot |-> nega_annot,
        v |-> [r \in DOMAIN tmp[1] |->
                  IF nega_annot THEN FSub(tmp[1][r], tmp[2][r])
                  ELSE FDiv(tmp[1][r], tmp[2][r])]]

\* Lines 442-446: the ratio column turned round when _change is set.
Reorient(ratio, change) ==
    IF change
    THEN [r \in DOMAIN ratio.v |->
             IF ratio.nega_annot THEN FNeg(ratio.v[r])
             ELSE FDiv(Num(1), ratio.v[r])]
    ELSE ratio.v

TwoGroupColumns(gv, method, ratio_label) ==
    <<gv[1] \o "_" \o method, gv[2] \o "_" \o method, ratio_label,
      "ttest_statistics", "cohen_d", "ttest_pvalues", "ttest_fdr",
      "ranksums_statistics", "wilcoxon_es", "ranksums_pvalues",
      "ranksums_fdr", gv[1] \o "_percentage", gv[2] \o "_percentage">>

MultiGroupColumns(gv, method) ==
    [g \in DOMAIN gv |-> gv[g] \o "_" \o method]
    \o <<"anova_statistics", "anova_pvalues", "anova_fdr",
         "alexandergovern_statistics", "alexandergovern_pvalues",
         "alexandergovern_fdr", "kruskal_statistics", "kruskal_pvalues",
         "kruskal_fdr">>
    \o [g \in DOMAIN gv |-> gv[g] \o "_percentage"]

\* Group.__table
Table(i) ==
    LET tmp == ParamValue(i.param_values, i.param_method.v)
        gv == i.group_values.v
        ratio_label == i.dividend.v \o "_vs_" \o i.divisor.v
    IN [i EXCEPT !.group_table =
          IF Len(gv) = 2
          THEN [kind |-> "frame", index |-> i.tmp_dataset.index,
                columns |-> TwoGroupColumns(gv, i.param_method.v, ratio_label),
                stat |-> tmp,
                ratio |-> Reorient(Ratio(tmp), i.change.v),
                inference |-> i.param_values.inference_statistics,
                percentage |-> i.param_values.percentage]
          ELSE [kind |-> "frame", index |-> i.tmp_dataset.index,
                columns |-> MultiGroupColumns(gv, i.param_method.v),
                stat |-> tmp,
                ratio |-> <<>>,
                inference |-> i.param_values.inference_statistics,
                percentage |-> i.param_values.percentage]]

---------------------------------------------------------------------------
(* Group.__group_pipeline and Group._group_check_params *)

\* Lines 274-288: the groups, their parameters, statistics and table, for
\* the instance i2 that holds the working dataset td and the labels gf.
GroupStatistics(i2, td, gf) ==
    Bind(Unique([j \in DOMAIN gf |-> gf[j].label]), LAMBDA labels :
    Bind(GroupSetParams(
             [i2 EXCEPT
                !.group_file = [kind |-> "series", v |-> gf],
                !.part_element = List(labels),
                !.group_values = List(labels),
                !.group = [kind |-> "matrices",
                           v |-> [g \in DOMAIN labels |->
                                     GroupColumns(td, gf, labels[g])]]]),
         LAMBDA sp :
    IF sp.outcome # "ok"
    THEN [inst |-> sp.inst, outcome |-> sp.outcome, hg |-> "ok"]
    ELSE Bind(GroupCalValues(sp.inst), LAMBDA i4 :
             [inst |-> IF Len(i4.part_element.v) # 1 THEN Table(i4) ELSE i4,
              outcome |-> "ok", hg |-> "ok"])))

\* Lines 269-272: the working dataset and the joined labels, for the
\* instance i1 and the rows _handle_group returned.
GroupWorkingDataset(i1, rows) ==
    Bind(TmpDataset(i1.dataset_type.v, rows, i1.thresh.v), LAMBDA td :
    Bind(JoinedGroupFile(rows, td.columns), LAMBDA gf :
    Bind([i1 EXCEPT !.group_file = [kind |-> "frame", v |-> rows],
                    !.tmp_dataset = td], LAMBDA i2 :
    IF gf = <<>>
    THEN \* no sample is left: the run is taken to fail on the empty
         \* selection before any group or statistic is stored
         [inst |-> i2, outcome |-> "EmptySelection", hg |-> "ok"]
    ELSE GroupStatistics(i2, td, gf))))

\* Group.__group_pipeline.  The result carries the instance as the run left
\* it, how the run ended, and how _handle_group ended.
GroupPipeline(i, rows, reg) ==
    Bind([i EXCEPT !.part_element_keep_for_palette = i.part_element],
         LAMBDA i1 :
    Bind(HandleGroup(rows, i.file_type.v, i.group_name, i.part_element),
         LAMBDA hg :
    IF hg.outcome # "ok"
    THEN [inst |-> i1, outcome |-> hg.outcome, hg |-> hg.outcome]
    ELSE IF ~Truthy(i.dataset_type) \/ i.dataset_type.v \notin reg
    THEN \* self._data[self._dataset_type] of line 269
         [inst |-> [i1 EXCEPT !.group_file =
                                  [kind |-> "frame", v |-> hg.rows]],
          outcome |-> "KeyError", hg |-> "ok"]
    ELSE GroupWorkingDataset(i1, hg.rows)))

\* Line 254 testing only the first of several group names.
WrongGroupName_FirstOnly(i) ==
    LET c == GroupCols(i.group_name)[1]
    IN c # "" /\ c \notin ColumnNames(i.file_type.v)

\* Line 254: any(np.setdiff1d(group_name, columns of the grouping table))
WrongGroupName(i) ==
    \E c \in Range(GroupCols(i.group_name)) :
        c # "" /\ c \notin ColumnNames(i.file_type.v)

\* Line 253: the guard under which group_name is validated and the
\* pipeline runs.
CheckedGroupName(i) ==
    Truthy(i.group_name) /\ Truthy(i.file_type) /\ Truthy(i.dataset_type)

\* Group._group_check_params, on the registry reg.
GroupCheckParams(i, rows, reg) ==
    LET skipped == [inst |-> i, outcome |-> "ok", ran |-> FALSE,
                    hg |-> "skipped", named |-> None]
    IN IF CheckedGroupName(i)
       THEN IF i.file_type.v \notin reg
            THEN [skipped EXCEPT !.outcome = "KeyError"]
            ELSE IF WrongGroupName(i)
            THEN [skipped EXCEPT !.outcome = "ValueError",
                                 !.named = i.group_name]
            ELSE Bind(GroupPipeline(i, rows, reg), LAMBDA r :
                     [inst |-> r.inst, outcome |-> r.outcome, ran |-> TRUE,
                      hg |-> r.hg, named |-> None])
       ELSE IF Truthy(i.dataset_type)
       THEN IF i.dataset_type.v \notin reg
            THEN [skipped EXCEPT !.outcome = "KeyError"]
            ELSE [skipped EXCEPT
                     !.inst = [i EXCEPT !.tmp_dataset =
                                  WholeDataset(i.dataset_type.v)]]
       ELSE skipped

\* The table property (lines 467-469): the rows of _group_table at the
\* labels the mask selects from the index of the working dataset.
TableProperty(i) ==
    IF i.group_table.kind = "unset" \/ i.tmp_dataset.kind = "unset"
       \/ i.out_index.kind = "unset"
    THEN [outcome |-> "AttributeError", rows |-> <<>>]
    ELSE IF Len(i.out_index.v) # Len(i.tmp_dataset.index)
    THEN [outcome |-> "IndexError", rows |-> <<>>]
    ELSE LET labels == [r \in {q \in DOMAIN i.tmp_dataset.index : i.out_index.v[q]}
                           |-> i.tmp_dataset.index[r]]
             picked == SelectSeq(i.tmp_dataset.index,
                           LAMBDA f : \E r \in DOMAIN labels : labels[r] = f)
         IN IF \E f \in Range(picked) : f \notin Range(i.group_table.index)
            THEN [outcome |-> "KeyError", rows |-> <<>>]
            ELSE [outcome |-> "ok", rows |-> picked]

---------------------------------------------------------------------------
(* Analysis: construction *)

\* The defaults of Correlation.__init__ (lines 609-624).
CorrelationDefaults ==
    [name1 |-> None, name2 |-> None, element1 |-> None, element2 |-> None,
     file_type |-> Str("category"), group_name |-> None,
     part_element |-> None, thresh |-> Number(0), cal_type |-> Str("other"),
     fdr_method |-> Str("i"), fdr_type |-> Str("local"),
     algorithm |-> Str("all"), write_out |-> Bool(FALSE)]

\* The defaults of Regression.__init__ (line 785).
RegressionDefaults ==
    [type |-> Str("ols"), scaler |-> Dict(EmptyDict), y |-> None, x |-> None,
     cutoff |-> None, y_order |-> None, file_type |-> Str("category"),
     group_name |-> None, part_element |-> None, thresh |-> None,
     const |-> Bool(TRUE), categorical |-> Str("auto"),
     anova |-> Bool(FALSE), output |-> List(<<"params", "pvalues">>)]

\* The defaults of the correlation parameters of Analysis.__init__ (934-941).
AnalysisCorrDefaults ==
    [name1 |-> None, name2 |-> None, element1 |-> None,
     element2 |-> Str("all"), cal_type |-> Str("other"),
     fdr_type |-> Str("local"), algorithm |-> Str("all"),
     write_out |-> Bool(FALSE)]

\* The defaults of the regression parameters of Analysis.__init__ (942-951).
AnalysisRegDefaults ==
    [type |-> Str("ols"), scaler |-> None, y |-> None, x |-> None,
     cutoff |-> None, const |-> Bool(TRUE), categorical |-> Str("auto"),
     anova |-> Bool(FALSE), output |-> List(<<"params", "pvalues">>)]

\* Correlation._corr_check_params: the guard of the correlation pipeline.
CorrCheckParams(c) ==
    Truthy(c.name1) /\ Truthy(c.name2) /\ Truthy(c.element1)
    /\ Truthy(c.element2)

\* Regression._reg_check_params: the guard of the regression pipeline.
RegCheckParams(r) == Truthy(r.type) /\ Truthy(r.x) /\ Truthy(r.y)

\* Regression.__init__(dirpath), as reached through Correlation.__init__:
\* only dirpath is passed up the chain of super().__init__ calls.
RegressionInit == RegressionDefaults

\* Correlation.__init__(dirpath), as reached through Group.__init__ line 237.
CorrelationInit == CorrelationDefaults

\* Group.__init__ lines 238-248 on the first twelve positional arguments of
\* line 955; the remaining ones are bound to *args and not used.
GroupInit(a) ==
    [kind |-> "analysis",
     group_name |-> a.group_name, file_type |-> Str("category"),
     dataset_type |-> a.dataset_type, part_element |-> a.part_element,
     thresh |-> Number(1), param_method |-> Str("mean"),
     statistic_method |-> Str("log2"), ttest_kwargs |-> Dict(EmptyDict),
     fdr_method |-> Str("i"), dividend |-> a.dividend,
     palette |-> Dict(EmptyDict),
     part_element_keep_for_palette |-> Unset, group_file |-> Unset,
     tmp_dataset |-> Unset, group_values |-> Unset, group |-> Unset,
     change |-> Unset, divisor |-> Unset, param_values |-> Unset,
     out_index |-> Unset, group_table |-> Unset,
     corr |-> CorrelationInit, reg |-> RegressionInit,
     corr_value |-> Unset, reg_model |-> Dict(EmptyDict),
     enrich_tool |-> Unset, junk |-> {}]

GroupKeys ==
    {"group_name", "dataset_type", "file_type", "thresh", "part_element",
     "param_method", "statistic_method", "ttest_kwargs", "fdr_method",
     "dividend", "palette"}

\* Lines 957-1006: the three bundles, read from the attributes.
TmpDict(i) ==
    [group |-> [k \in GroupKeys |-> i[k]],
     corr |-> i.corr,
     reg |-> i.reg]


\* The parameters a run of _group_check_params starts from.
Entry(i) ==
    [group_name |-> i.group_name, file_type |-> i.file_type,
     dataset_type |-> i.dataset_type, thresh |-> i.thresh,
     dividend |-> i.dividend, part_element |-> i.part_element,
     palette |-> i.palette]

\* The arguments Analysis is constructed with; the parameters left out
\* take their defaults.
GroupNameValues ==
    {Str("g1"), Str("group_name"), Str("g9"), List(<<"g1", "g2">>),
     List(<<"g1", "g9">>)}

PartElementValues ==
    {None, List(<<"A">>), List(<<"B", "A">>), List(<<"A", "Z">>),
     Nested(<<<<"A", "B">>, <<"X", "Y">>>>),
     Nested(<<<<"A", "Q">>, <<"X">>>>),
     Tuples(<<<<"A", "X">>, <<"B", "Y">>>>)}

CustomCorr ==
    [AnalysisCorrDefaults EXCEPT !.name1 = Str("prot"), !.name2 = Str("rna"),
                                 !.element1 = Str("f1"),
                                 !.algorithm = Str("spearman")]

CustomReg ==
    [AnalysisRegDefaults EXCEPT !.type = Str("logit"),
                                !.scaler = Str("zscore"),
                                !.const = Bool(FALSE)]

CtorArgs ==
    [group_name : {None, Str("g1"), Str("group_name"), Str("g9")},
     dataset_type : {None, Str("prot")},
     part_element : {None, List(<<"B", "A">>)},
     dividend : {None, Str("A")},
     extra : {[corr |-> AnalysisCorrDefaults, reg |-> AnalysisRegDefaults],
              [corr |-> CustomCorr, reg |-> CustomReg]}]

\* Analysis(dirpath, **a): the chain Group.__init__ -> Correlation.__init__
\* -> Regression.__init__ -> Dataset.__init__, then the bundles.
AnalysisInit(a) ==
    /\ call.op = "none"
    /\ DatasetConstruct
    /\ UNCHANGED <<catRows, nCalls, toolVars>>
    /\ \E i0 \in {GroupInit(a)} :
       \E gc \in {GroupCheckParams(i0, catRows, DOMAIN data')} :
       \E outcome \in {IF last'.outcome # "ok" THEN last'.outcome
                       ELSE gc.outcome} :
          /\ inst' = IF outcome = "ok"
                     THEN [gc.inst EXCEPT !.enrich_tool = Dict(EmptyDict)]
                     ELSE Unset
          /\ tmp_dict' = IF outcome = "ok" THEN TmpDict(gc.inst) ELSE Unset
          /\ call' = [op |-> "init", fn |-> "", kw |-> EmptyDict, args |-> a,
                      outcome |-> outcome,
                      ran |-> last'.outcome = "ok" /\ gc.ran,
                      hg |-> IF last'.outcome = "ok" THEN gc.hg ELSE "skipped",
                      named |-> IF last'.outcome = "ok" THEN gc.named ELSE None,
                      entry |-> Entry(i0),
                      corr_ran |-> last'.outcome = "ok"
                                   /\ CorrCheckParams(i0.corr),
                      reg_ran |-> last'.outcome = "ok"
                                  /\ RegCheckParams(i0.reg)]

---------------------------------------------------------------------------
(* Analysis.set_param *)

\* str.lower() on the function names that are used.
Lower(fn) ==
    IF fn = "GROUP" THEN "group" ELSE IF fn = "Global" THEN "global" ELSE fn

BundleNames == {"group", "corr", "reg"}

\* Line 1037: {0: 1e-5, 1: 1-1e-5}.get(v, v), thresh in units of 1e-5.
MapThresh(k, v) ==
    IF k = "thresh" /\ PyEq(v, Number(0)) THEN Number(1)
    ELSE IF k = "thresh" /\ PyEq(v, Number(ThreshScale))
    THEN Number(ThreshScale - 1)
    ELSE v

\* Lines 1029-1030: the attributes reset when group_name is supplied.  The
\* test compares the literal 'group_name' with the current group_name.
ResetParams(i, kw) ==
    IF "group_name" \in DOMAIN kw /\ ~PyEq(Str("group_name"), i.group_name)
    THEN {"dividend", "part_element", "palette"}
    ELSE {}

\* Lines 1031-1032: params.extend('group_name') appends the ten characters
\* of the word, so attributes '_g', '_r', ... are set to None.
CharParams(i, kw) ==
    IF "file_type" \in DOMAIN kw /\ ~PyEq(Str("file_type"), i.file_type)
    THEN {"g", "r", "o", "u", "p", "_", "n", "a", "m", "e"}
    ELSE {}

\* Analysis.__set_default_params over the params of lines 1028-1032.
SetDefaultParams(i, kw) ==
    [f \in DOMAIN i |->
        IF f \in ResetParams(i, kw) THEN None
        ELSE IF f = "junk" THEN i.junk \cup CharParams(i, kw)
        ELSE i[f]]

\* Lines 1035-1039: the attributes assigned from kwargs.
AssignGroup(i, kw) ==
    [f \in DOMAIN i |->
        IF f \in DOMAIN kw THEN MapThresh(f, kw[f]) ELSE i[f]]

\* Line 1040 (and 1047): the entries of one bundle assigned from kwargs.
AssignBundle(b, kw) ==
    [k \in DOMAIN b |-> IF k \in DOMAIN kw THEN MapThresh(k, kw[k]) ELSE b[k]]

\* The record of a call of set_param.
SetParamCall(fn, kw, outcome, gc, i) ==
    [op |-> "set_param", fn |-> fn, kw |-> kw, args |-> None,
     outcome |-> outcome, ran |-> gc.ran, hg |-> gc.hg, named |-> gc.named,
     entry |-> Entry(i), corr_ran |-> FALSE, reg_ran |-> FALSE]

NotRun == [ran |-> FALSE, hg |-> "skipped", named |-> None]

\* Analysis.set_param(function_name, **kwargs).  For 'corr' and 'reg' the
\* call is modelled for keyword arguments that leave the guard of the
\* correlation or regression pipeline false, so that _corr_check_params
\* and _reg_check_params return without running it.
SetParam(fn, kw) ==
    /\ call.op # "none"
    /\ inst.kind = "analysis"
    /\ nCalls < MaxCalls
    /\ nCalls' = nCalls + 1
    /\ UNCHANGED <<loaderVars, catRows, toolVars>>
    /\ IF Lower(fn) \notin BundleNames
       THEN \* line 1015
            /\ call' = SetParamCall(fn, kw, "ValueError", NotRun, inst)
            /\ UNCHANGED <<inst, tmp_dict>>
       ELSE IF fn \notin BundleNames
       THEN \* self._tmp_dict[function_name] of line 1021
            /\ call' = SetParamCall(fn, kw, "KeyError", NotRun, inst)
            /\ UNCHANGED <<inst, tmp_dict>>
       ELSE IF DOMAIN kw \ DOMAIN tmp_dict[fn] # {}
       THEN \* line 1024
            /\ call' = SetParamCall(fn, kw, "ValueError", NotRun, inst)
            /\ UNCHANGED <<inst, tmp_dict>>
       ELSE IF fn = "group"
       THEN \E i2 \in {AssignGroup(SetDefaultParams(inst, kw), kw)} :
            \E gc \in {GroupCheckParams(i2, catRows, DOMAIN data)} :
               /\ inst' = gc.inst
               /\ tmp_dict' = [tmp_dict EXCEPT
                                 !.group = AssignBundle(tmp_dict.group, kw)]
               /\ call' = SetParamCall(fn, kw, gc.outcome, gc, i2)
       ELSE IF fn = "corr"
       THEN LET c == AssignBundle(inst.corr, kw)
            IN /\ ~CorrCheckParams(c)
               /\ inst' = [inst EXCEPT !.corr_value = Dict(EmptyDict),
                                       !.corr = c]
               /\ tmp_dict' = [tmp_dict EXCEPT
                                 !.corr = AssignBundle(tmp_dict.corr, kw)]
               /\ call' = SetParamCall(fn, kw, "ok", NotRun, inst)
       ELSE \* 'reg', with kwargs other than output alone (lines 1055-1058)
            LET r == AssignBundle(inst.reg, kw)
            IN /\ DOMAIN kw # {"output"}
               /\ ~RegCheckParams(r)
               /\ inst' = [inst EXCEPT !.reg_model = Dict(EmptyDict),
                                       !.reg = r]
               /\ UNCHANGED tmp_dict
               /\ call' = SetParamCall(fn, kw, "ok", NotRun, inst)

\* Analysis.get_param(): the bundles of _tmp_dict.
GetParam == tmp_dict

FunctionNames == {"group", "GROUP", "corr", "reg", "plot"}

ThreshValues == {Number(0), Number(50000), Number(ThreshScale)}

\* The keyword arguments set_param is called with for each function name.
GroupKwargs ==
    {"group_name" :> g : g \in GroupNameValues}
    \cup {"dataset_type" :> d : d \in {Str("prot"), Str("rna")}}
    \cup {"part_element" :> p : p \in PartElementValues}
    \cup {"dividend" :> Str("A")}
    \cup {"thresh" :> t : t \in ThreshValues}
    \cup {"param_method" :> m : m \in {Str("mean"), Str("count")}}
    \cup {"file_type" :> f : f \in {Str("category"), Str("prot")}}
    \cup {("file_type" :> Str("category")) @@ ("group_name" :> Str("g1"))}
    \cup {("group_name" :> Str("g1")) @@ ("part_element" :> List(<<"A">>))}
    \cup {("group_name" :> Str("g1")) @@ ("dividend" :> Str("A"))}

Kwargs(fn) ==
    CASE fn = "group" -> GroupKwargs
      [] fn = "corr" -> {"name1" :> Str("prot"), "dividend" :> Str("A")}
      [] fn = "reg" -> {"type" :> Str("logit")}
      [] OTHER -> {"thresh" :> Number(0)}

---------------------------------------------------------------------------
(* The Analysis on a project directory with category, prot and rna tables *)

GoodFiles ==
    [n \in OmicNames |-> IF n = "color" THEN Absent ELSE File("csv", TRUE)]

\* The category table lists the samples in ascending or descending order.
RowOrders == {[i \in 1..NumSamples |-> i], [i \in 1..NumSamples |-> NumSamples + 1 - i]}

Init ==
    /\ hasDocument = TRUE
    /\ files = GoodFiles
    /\ fsVer = 0
    /\ data = EmptyDict
    /\ valid_dfs_names = <<>>
    /\ color_map = NoColorMap
    /\ initialized = FALSE
    /\ last = [op |-> "none", names |-> <<>>, outcome |-> "ok"]
    /\ catRows \in RowOrders
    /\ inst = Unset
    /\ tmp_dict = Unset
    /\ call = NoCall
    /\ nCalls = 0
    /\ ToolsIdle

Next ==
    \/ \E a \in CtorArgs : AnalysisInit(a)
    \/ \E fn \in FunctionNames : \E kw \in Kwargs(fn) : SetParam(fn, kw)

Spec == Init /\ [][Next]_vars

---------------------------------------------------------------------------
(* Claims about the loader (checked under SpecLoad) *)

BulkLoaded == last.op \in {"init", "update"} /\ hasDocument

\* C5: a bulk load never raises because one of the named tables is missing,
\* unreadable or malformed; the failing name is skipped and is absent from
\* the registry, and every other name of the call is loaded.
C5_BulkLoadSkipsFailures ==
    BulkLoaded =>
        /\ last.outcome = "ok"
        /\ \A n \in Range(last.names) :
              IF GetDataframe(files, n) = "ok"
              THEN n \in DOMAIN data /\ data[n] = fsVer
              ELSE n \notin DOMAIN data

\* C6: loading a name whose file has an extension other than csv, txt, tsv,
\* maf, pickle or feather signals an error to the caller of the load.
C6_UnsupportedExtensionSignalled ==
    (BulkLoaded /\ \E n \in Range(last.names) :
         n \in OmicNames /\ files[n] # Absent
         /\ files[n].ext \notin {"csv", "txt", "tsv", "maf", "pickle", "feather"})
    => last.outcome = "ValueError"

NoDocumentInit == last.op = "init" /\ ~hasDocument

\* C7 as stated: constructing a Dataset on a directory without a document
\* subfolder completes without raising and leaves zero loaded tables.
C7_NoDocumentAccepted ==
    NoDocumentInit => last.outcome = "ok" /\ initialized /\ DOMAIN data = {}

\* C7 as amended: constructing a Dataset on a directory without a document
\* subfolder raises FileNotFoundError (from listing the folder); the
\* constructor does not complete and no table is loaded.
C7_NoDocumentRaises ==
    NoDocumentInit =>
        /\ last.outcome = "FileNotFoundError"
        /\ ~initialized
        /\ DOMAIN data = {}

C7_Witness == NoDocumentInit /\ last.outcome = "FileNotFoundError"

---------------------------------------------------------------------------
(* Claims about the comparator (checked under Spec) *)

\* The last call got as far as _group_check_params.
ReachedCheck ==
    \/ call.op = "init" /\ last.outcome = "ok"
    \/ call.op = "set_param" /\ call.fn = "group"
       /\ DOMAIN call.kw \subseteq GroupKeys

\* The last call ran the group pipeline to its end.
CompletedRun == ReachedCheck /\ call.ran /\ call.outcome = "ok"

TwoGroupRun == CompletedRun /\ Len(inst.group_values.v) = 2

\* The statistic of group g that the table reports.
StatOf(i, g) ==
    ParamValue(i.param_values, i.param_method.v)[IndexOf(i.group_values.v, g)]

\* The ratio column is labelled dividend_vs_divisor and holds
\* stat(dividend) - stat(divisor) when any statistic is negative, else
\* stat(dividend) / stat(divisor).
Oriented(i) ==
    LET sd == StatOf(i, i.dividend.v)
        sv == StatOf(i, i.divisor.v)
        nega == \E r \in DOMAIN sd : IsNegative(sd[r]) \/ IsNegative(sv[r])
    IN /\ i.group_table.columns[3] = i.dividend.v \o "_vs_" \o i.divisor.v
       /\ \A r \in DOMAIN sd :
             i.group_table.ratio[r] =
                 IF nega THEN FSub(sd[r], sv[r]) ELSE FDiv(sd[r], sv[r])

\* The run of the instance i with its two groups discovered in the other
\* order, started from the dividend d.
SwappedRun(i, d) ==
    Table(GroupCalValues(SetDividend(
        [i EXCEPT !.group_values = List(Reverse(i.group_values.v)),
                  !.group = [kind |-> "matrices", v |-> Reverse(i.group.v)],
                  !.dividend = d])))

RatioColumn(i) ==
    [label |-> i.group_table.columns[3], values |-> i.group_table.ratio]

SwapInvariant ==
    RatioColumn(SwappedRun(inst, call.entry.dividend)) = RatioColumn(inst)

DesignatedDividend ==
    call.entry.dividend.kind = "str"
    /\ call.entry.dividend.v \in Range(inst.group_values.v)

\* C1 as stated: in every 2-group run the ratio column reads
\* dividend over (or minus) divisor, and discovering the two groups in the
\* other order leaves the column unchanged.
C1_RatioOrderIndependent ==
    TwoGroupRun => Oriented(inst) /\ SwapInvariant

\* C1, amended: in every 2-group run the ratio column reads dividend over
\* (or minus) divisor as labelled; when the dividend the run starts from is
\* one of the two groups, that group is the numerator and discovering the
\* groups in the other order leaves the column unchanged.
C1_RatioFollowsDesignatedDividend ==
    TwoGroupRun =>
        /\ Oriented(inst)
        /\ DesignatedDividend =>
              PyEq(inst.dividend, call.entry.dividend) /\ SwapInvariant

\* A 2-group run whose designated dividend was discovered second, so that
\* the ratio column was turned round.
C1_Witness ==
    TwoGroupRun /\ DesignatedDividend /\ inst.change.v
    /\ inst.group_values.v[2] = call.entry.dividend.v

\* The table the property reads is the one Table assembles from the
\* statistics of the current run.
TableIsCurrent ==
    /\ TableProperty(inst).outcome = "ok"
    /\ inst.group_table.index = inst.tmp_dataset.index
    /\ inst.group_table.stat
           = ParamValue(inst.param_values, inst.param_method.v)
    /\ inst.group_table.percentage = inst.param_values.percentage

\* C2 as stated: after every completed pipeline run the table
\* property returns the table assembled by that run.
C2_TableOverwrittenEveryRun == CompletedRun => TableIsCurrent

ExtraKeysCorr ==
    {"name1", "name2", "element1", "element2", "cal_type", "fdr_type",
     "algorithm", "write_out"}

ExtraKeysReg ==
    {"type", "scaler", "x", "y", "cutoff", "const", "categorical", "anova",
     "output"}

\* C3 as stated: after construction the correlation and regression
\* parameters of the instance and of get_param equal the constructor
\* arguments, and a pipeline whose required parameters were given has run.
C3_EnginesConfiguredByConstructor ==
    (call.op = "init" /\ call.outcome = "ok") =>
        /\ \A k \in ExtraKeysCorr :
              /\ PyEq(inst.corr[k], call.args.extra.corr[k])
              /\ PyEq(GetParam.corr[k], call.args.extra.corr[k])
        /\ \A k \in ExtraKeysReg :
              /\ PyEq(inst.reg[k], call.args.extra.reg[k])
              /\ PyEq(GetParam.reg[k], call.args.extra.reg[k])
        /\ CorrCheckParams(call.args.extra.corr) => call.corr_ran
        /\ RegCheckParams(call.args.extra.reg) => call.reg_ran

\* C4 as stated: when set_param('group', group_name=...) re-runs the
\* check, each of dividend, part_element and palette that the call does
\* not supply is unset (None or empty).
C4_GroupNameResetsDerived ==
    (call.op = "set_param" /\ call.fn = "group"
     /\ DOMAIN call.kw \subseteq GroupKeys /\ "group_name" \in DOMAIN call.kw)
    => \A p \in {"dividend", "part_element", "palette"} \ DOMAIN call.kw :
           ~Truthy(call.entry[p])

\* Some configured group_name is not a column of the grouping table.
MissingGroupName(e) ==
    /\ Truthy(e.group_name)
    /\ e.file_type.kind = "str"
    /\ e.file_type.v \in DOMAIN data
    /\ \E c \in Range(GroupCols(e.group_name)) :
          c \notin ColumnNames(e.file_type.v)

\* The call raised the ValueError of line 255, which formats the
\* configured group_name, and the pipeline did not run.
RaisedForGroupName ==
    /\ call.outcome = "ValueError"
    /\ PyEq(call.named, call.entry.group_name)
    /\ ~call.ran

\* C8 as stated: configuring the comparator with a group_name that
\* is not a column of the grouping table raises a ValueError naming it, and
\* the pipeline does not run.
C8_MissingGroupNameRaises ==
    (ReachedCheck /\ MissingGroupName(call.entry)) => RaisedForGroupName

\* C8, amended: once group_name, file_type and dataset_type are all
\* configured, a group_name that is not a column of the grouping table
\* raises a ValueError naming the configured group_name and the pipeline
\* does not run; while dataset_type is unset nothing is validated and the
\* call completes.
C8_MissingGroupNameRaisesOnceConfigured ==
    (ReachedCheck /\ MissingGroupName(call.entry)) =>
        IF Truthy(call.entry.dataset_type)
        THEN RaisedForGroupName
        ELSE call.outcome = "ok" /\ ~call.ran

\* A call with all three parameters configured, the second of two group
\* names missing from the category table.
C8_Witness ==
    /\ ReachedCheck /\ MissingGroupName(call.entry)
    /\ Truthy(call.entry.dataset_type)
    /\ call.entry.group_name.kind = "list"
    /\ call.entry.group_name.v[1] \in CategoryColumns
    /\ RaisedForGroupName

\* The filter e.part_element gives values for the label columns of
\* e.group_name: a flat list for one column, one list per column or a list
\* of tuples for several columns.
FilterShaped(e) ==
    /\ Truthy(e.part_element)
    /\ e.file_type.kind = "str" /\ e.file_type.v = "category"
    /\ Range(GroupCols(e.group_name)) \subseteq CategoryColumns
    /\ \/ e.group_name.kind = "str" /\ e.part_element.kind = "list"
       \/ /\ e.group_name.kind = "list"
          /\ e.part_element.kind = "nested"
          /\ Len(e.part_element.v) = Len(e.group_name.v)
       \/ /\ e.group_name.kind = "list"
          /\ e.part_element.kind = "tuples"
          /\ \A t \in Range(e.part_element.v) :
                Len(t) = Len(e.group_name.v)

\* The values the filter gives for the k-th label column.
FilterValues(e, k) ==
    CASE e.part_element.kind = "list" -> Range(e.part_element.v)
      [] e.part_element.kind = "nested" -> Range(e.part_element.v[k])
      [] e.part_element.kind = "tuples" ->
             {t[k] : t \in Range(e.part_element.v)}

\* The filter has a value that its label column does not hold.
FilterUnobserved(e) ==
    LET cols == GroupCols(e.group_name)
        rows == LabelRows(catRows, cols)
    IN \E k \in DOMAIN cols : ~(FilterValues(e, k) \subseteq ColValues(rows, k))

\* C9 as stated: when the pipeline filters the labels, a filter
\* with an unobserved value makes the call raise and a filter of observed
\* values is accepted by _handle_group, for one label column and for
\* several.
C9_FilterValidated ==
    (ReachedCheck /\ call.hg # "skipped" /\ FilterShaped(call.entry)) =>
        IF FilterUnobserved(call.entry)
        THEN call.outcome # "ok"
        ELSE call.hg = "ok"

\* The features of the working dataset whose non-missing fraction exceeds
\* thresh in at least one group.
FeaturesAbove(i) ==
    {i.tmp_dataset.index[r] : r \in
        {q \in DOMAIN i.tmp_dataset.index :
            \E g \in DOMAIN i.group.v :
                Above(PercentageValue(i.tmp_dataset, i.group.v[g])[q],
                      i.thresh.v)}}

\* C10 as stated: after a completed run the table property returns
\* the rows of the result table of exactly the features above the threshold
\* in some group.
C10_TableRowsAboveThreshold ==
    CompletedRun =>
        /\ TableProperty(inst).outcome = "ok"
        /\ Range(TableProperty(inst).rows) = FeaturesAbove(inst)

\* ======================================================================
\* Preprocessing.calculate_vif
\* ======================================================================

\* The longest table handed to calculate_vif, in columns.
MaxCols == 4

\* The largest variance inflation factor the scorer reports.
MaxScore == 3

\* The name of the column calculate_vif appends.
AddConst == "add_const"

\* The column names of the tables handed to calculate_vif.
VifColumns == {"a", "b", "c", AddConst}

\* The tables: every column name at most once.
VifTables == {t \in SeqsUpTo(VifColumns, MaxCols) : Injective(t)}

\* The scores variance_inflation_factor reports, and the thresholds.
VifScores == 1 .. MaxScore
VifThresholds == 0 .. MaxScore

\* df.assign(add_const=1): a new last column, or, when the table already
\* has a column of that name, that column overwritten where it stands.
Assign(df) == IF AddConst \in Range(df) THEN df ELSE Append(df, AddConst)

\* df.drop(col, axis=1)
DropColumn(df, col) == SelectSeq(df, LAMBDA c : c # col)

\* [variance_inflation_factor(df, i) for i in range(df.shape[1])][:-1]:
\* the columns that get a score are all but the last one.
ScoredColumns(df) == SubSeq(df, 1, Len(df) - 1)

\* What is known of variance_inflation_factor: the score of a column is a
\* function of the set of columns of the table and of the column; a column
\* regressed on the constant alone scores 1; two predictors beside the
\* constant score alike.
Predictors(S) == S \ {AddConst}

ScoreAdmissible(S, c, v, known) ==
    /\ (<<S, c>> \in DOMAIN known) => (v = known[<<S, c>>])
    /\ (c # AddConst /\ S = {c, AddConst}) => (v = 1)
    /\ (c # AddConst /\ AddConst \in S /\ Cardinality(Predictors(S)) = 2) =>
           \A y \in Predictors(S) :
               (<<S, y>> \in DOMAIN known) => (v = known[<<S, y>>])

VarianceInflationFactor(df, known) ==
    LET S == Range(df)
        cols == ScoredColumns(df)
    IN  {sc \in [1 .. Len(cols) -> VifScores] :
            /\ \A i \in 1 .. Len(cols) :
                   ScoreAdmissible(S, cols[i], sc[i], known)
            /\ (AddConst \in S /\ Cardinality(Predictors(S)) = 2) =>
                   \A i, j \in 1 .. Len(cols) :
                       (cols[i] # AddConst /\ cols[j] # AddConst) =>
                           (sc[i] = sc[j])}

\* The scores seen so far, extended by those of one iteration.
Remember(known, df, sc) ==
    LET S == Range(df)
        cols == ScoredColumns(df)
        fresh == {<<S, cols[i]>> : i \in 1 .. Len(cols)} \ DOMAIN known
    IN  [k \in DOMAIN known \cup fresh |->
            IF k \in DOMAIN known THEN known[k]
            ELSE sc[CHOOSE i \in 1 .. Len(cols) : cols[i] = k[2]]]

\* np.max(vif)
MaxVif(sc) == SetMax({sc[i] : i \in DOMAIN sc})

\* np.argmax(max_vif): the position of the largest element of a scalar.
MaxLoc(max_vif) == 0

\* No iteration has run.
NoStep == [ran |-> FALSE]

\* calculate_vif(df, thresh), up to the loop.
CalculateVif(df, thresh, run, known, first) ==
    [pc |-> "loop", run |-> run, input |-> df, thresh |-> thresh,
     df |-> Assign(df), known |-> known, step |-> NoStep, steps |-> 0,
     first |-> first, out |-> <<>>, error |-> "none"]

VifCall(df, thresh) ==
    /\ vif.pc = "idle"
    /\ vif' = CalculateVif(df, thresh, 1, <<>>, <<>>)
    /\ UNCHANGED <<loaderVars, analysisVars, scaled, corrRun, regRun, enr>>

\* One turn of the while loop, and the return when the loop ends.
VifIterate ==
    /\ vif.pc = "loop"
    /\ LET variables == vif.df
       IN  IF Len(ScoredColumns(variables)) = 0
           THEN \* np.max of an empty array
                vif' = [vif EXCEPT !.pc = "raised", !.error = "ValueError",
                                   !.step = NoStep]
           ELSE \E sc \in VarianceInflationFactor(variables, vif.known) :
                LET max_vif == MaxVif(sc)
                    known == Remember(vif.known, variables, sc)
                IN  IF max_vif > vif.thresh
                    THEN LET max_loc == MaxLoc(max_vif)
                             col == variables[max_loc + 1]
                         IN  vif' = [vif EXCEPT
                                 !.df = DropColumn(variables, col),
                                 !.known = known,
                                 !.steps = @ + 1,
                                 !.step = [ran |-> TRUE,
                                           variables |-> variables,
                                           vif |-> sc, max_vif |-> max_vif,
                                           dropped |-> <<col>>]]
                    ELSE LET last_step == [ran |-> TRUE,
                                           variables |-> variables,
                                           vif |-> sc, max_vif |-> max_vif,
                                           dropped |-> <<>>]
                         IN  IF AddConst \in Range(variables)
                             THEN vif' = [vif EXCEPT
                                     !.pc = "returned",
                                     !.known = known,
                                     !.step = last_step,
                                     !.out = DropColumn(variables, AddConst)]
                             ELSE \* df.drop('add_const') of a table without it
                                  vif' = [vif EXCEPT
                                     !.pc = "raised",
                                     !.known = known,
                                     !.step = last_step,
                                     !.error = "KeyError"]
    /\ UNCHANGED <<loaderVars, analysisVars, scaled, corrRun, regRun, enr>>

\* calculate_vif applied to the table it returned, with the same threshold.
VifRerun ==
    /\ vif.pc = "returned"
    /\ vif.run = 1
    /\ vif' = CalculateVif(vif.out, vif.thresh, 2, vif.known, vif.out)
    /\ UNCHANGED <<loaderVars, analysisVars, scaled, corrRun, regRun, enr>>

ToolInit ==
    /\ hasDocument = TRUE
    /\ files = [n \in OmicNames |-> Absent]
    /\ fsVer = 0
    /\ data = EmptyDict
    /\ valid_dfs_names = {}
    /\ color_map = NoColorMap
    /\ initialized = FALSE
    /\ last = NoCall
    /\ catRows = <<>>
    /\ inst = Unset
    /\ tmp_dict = Unset
    /\ call = NoCall
    /\ nCalls = 0
    /\ ToolsIdle

VifNext ==
    \/ \E df \in VifTables, thresh \in VifThresholds : VifCall(df, thresh)
    \/ VifIterate
    \/ VifRerun

SpecVif == ToolInit /\ [][VifNext]_vars

\* ----------------------------------------------------------------------
\* Claims about calculate_vif
\* ----------------------------------------------------------------------

\* The first position of the largest score.
FirstHighest(sc) ==
    CHOOSE i \in DOMAIN sc :
        /\ sc[i] = MaxVif(sc)
        /\ \A j \in DOMAIN sc : sc[j] = MaxVif(sc) => i <= j

IterationRan == vif.pc # "idle" /\ vif.step.ran

\* C11: every iteration of calculate_vif removes exactly one column, the one
\* with the highest score (the first of them on a tie), and only when that
\* score is above the threshold; the appended constant column is never
\* scored, never dropped and never returned.
C11_DropsHighestScoring ==
    IterationRan =>
        /\ \A i \in 1 .. Len(vif.step.vif) :
               vif.step.variables[i] # AddConst
        /\ AddConst \notin Range(vif.out)
        /\ (vif.step.dropped # <<>>) =>
               /\ vif.step.max_vif > vif.thresh
               /\ vif.step.dropped =
                      <<vif.step.variables[FirstHighest(vif.step.vif)]>>
               /\ Len(vif.df) = Len(vif.step.variables) - 1
        /\ (vif.step.dropped = <<>>) => (vif.step.max_vif <= vif.thresh)

\* C12: calculate_vif ends for every input by returning a table all of whose
\* scores are at most the threshold; when every predictor has been removed
\* it returns the table without predictors instead of raising.
C12_ReturnsWithinThreshold ==
    /\ vif.pc # "raised"
    /\ (vif.pc = "returned") =>
           /\ \A i \in 1 .. Len(vif.step.vif) : vif.step.vif[i] <= vif.thresh
           /\ Len(vif.step.vif) = Len(vif.out)

\* C13: calculate_vif applied to its own result, with the same threshold,
\* returns that result unchanged.
C13_Idempotent ==
    (vif.pc \in {"returned", "raised"} /\ vif.run = 2) =>
        /\ vif.pc = "returned"
        /\ vif.out = vif.first

\* ======================================================================
\* Preprocessing.scale
\* ======================================================================

\* The longest column handed to scale, in values.
MaxScaleLen == 2

NegInf == [k |-> "inf", n |-> -1, d |-> 0]

\* The values of the tables handed to scale.
ScaleValues == {Num(-1), Num(0), Num(1), Num(2), Num(4)}

\* A DataFrame and a Series; by names the transform its values went through.
Frame(vals, by) == [kind |-> "frame", vals |-> vals, by |-> by]
Series(vals) == [kind |-> "series", vals |-> vals, by |-> ""]

ScaleColumns == UNION {[1 .. k -> ScaleValues] : k \in 1 .. MaxScaleLen}

\* self._data, as scale reads it
ScaleData == [n \in {"prot"} |-> Frame(<<Num(1), Num(4)>>, "")]

\* The element argument: a dataset name, a Series or a DataFrame.
ScaleElements ==
    {Str("prot"), Str("cnv")}
        \cup {Frame(c, "") : c \in ScaleColumns}
        \cup {Series(c) : c \in ScaleColumns}

\* The scaler argument.
ScalerNames ==
    {"standard", "zscore", "minmax", "normalizer", "robust", "log2", "log10"}

ScalerValues ==
    {None, Str("")} \cup {Str(n) : n \in ScalerNames \cup {"none", "Standard"}}

\* scaler_methods
ScalerMethods ==
    [n \in ScalerNames |->
        CASE n \in {"standard", "zscore"} -> "StandardScaler"
          [] n = "minmax" -> "MinMaxScaler"
          [] n = "normalizer" -> "Normalizer"
          [] n = "robust" -> "RobustScaler"
          [] n = "log2" -> "np.log2"
          [] n = "log10" -> "np.log10"]

RECURSIVE IntLog(_, _)
IntLog(b, x) == IF x < b THEN 0 ELSE 1 + IntLog(b, x \div b)

RECURSIVE Power(_, _)
Power(b, e) == IF e = 0 THEN 1 ELSE b * Power(b, e - 1)

\* np.log2 and np.log10 of one value: nan below zero, -inf at zero, the
\* exponent at a power of the base, and otherwise the logarithm unevaluated.
NpLog(b, x) ==
    IF x.k # "num" THEN x
    ELSE IF x.n < 0 THEN NaN
    ELSE IF x.n = 0 THEN NegInf
    ELSE IF x.d = 1 /\ Power(b, IntLog(b, x.n)) = x.n THEN Num(IntLog(b, x.n))
    ELSE [k |-> IF b = 2 THEN "log2" ELSE "log10", n |-> x.n, d |-> x.d]

Raised(error, at) == [outcome |-> error, at |-> at, value |-> None]
Returned(v) == [outcome |-> "ok", at |-> "", value |-> v]

\* Preprocessing.scale with the falsy test replaced by a lookup of the
\* name none.
Scale_NoneByName(element, scaler) ==
    IF PyEq(scaler, Str("none")) THEN Returned(element)
    ELSE IF element.kind = "str" /\ element.v \notin DOMAIN ScaleData
    THEN Raised("KeyError", "_data")
    ELSE IF scaler.kind # "str" \/ scaler.v \notin DOMAIN ScalerMethods
    THEN Raised("KeyError", "scaler_methods")
    ELSE LET df == IF element.kind = "str" THEN ScaleData[element.v]
                   ELSE Frame(element.vals, "")
         IN  Returned(Frame(df.vals, ScalerMethods[scaler.v]))

\* Preprocessing.scale
Scale(element, scaler) ==
    IF ~Truthy(scaler) THEN Returned(element)
    ELSE IF element.kind = "str" /\ element.v \notin DOMAIN ScaleData
    THEN Raised("KeyError", "_data")
    ELSE IF scaler.v \notin DOMAIN ScalerMethods
    THEN Raised("KeyError", "scaler_methods")
    ELSE LET df == IF element.kind = "str" THEN ScaleData[element.v]
                   ELSE Frame(element.vals, "")
             method == ScalerMethods[scaler.v]
         IN  IF method = "np.log2"
             THEN Returned(Frame([i \in DOMAIN df.vals |->
                                     NpLog(2, df.vals[i])], ""))
             ELSE IF method = "np.log10"
             THEN Returned(Frame([i \in DOMAIN df.vals |->
                                     NpLog(10, df.vals[i])], ""))
             ELSE Returned(Frame(df.vals, method))

ScaleCall(element, scaler) ==
    /\ scaled.pc = "idle"
    /\ scaled' = [pc |-> "done", element |-> element, scaler |-> scaler,
                  result |-> Scale(element, scaler)]
    /\ UNCHANGED <<loaderVars, analysisVars, vif, corrRun, regRun, enr>>

\* A second call with the same arguments.
ScaleAgain ==
    /\ scaled.pc = "done"
    /\ scaled' = [scaled EXCEPT !.pc = "again",
                                !.result = Scale(scaled.element, scaled.scaler)]
    /\ UNCHANGED <<loaderVars, analysisVars, vif, corrRun, regRun, enr>>

ScaleNext ==
    \/ \E element \in ScaleElements, scaler \in ScalerValues :
           ScaleCall(element, scaler)
    \/ ScaleAgain

SpecScale == ToolInit /\ [][ScaleNext]_vars

\* ----------------------------------------------------------------------
\* Claims about scale
\* ----------------------------------------------------------------------

ScaleDone == scaled.pc # "idle"

MethodAccepted == ~(scaled.result.outcome = "KeyError"
                      /\ scaled.result.at = "scaler_methods")

MaxFreq == 2

\* The arguments of a correlation run: prot against rna.
CorrElements(name) ==
    {Str("all"), Str("f1"),
     List(IF name = "prot" THEN <<"f1", "f2">> ELSE <<"f1", "r2">>)}

CorrArgs ==
    [name1 : {Str("prot")}, name2 : {Str("rna")},
     element1 : CorrElements("prot") \cup {None},
     element2 : CorrElements("rna"),
     cal_type : {Str("other"), Str("corresponding")},
     fdr_type : {Str("local"), Str("global"), Str("Global")},
     algorithm : {Str("all"), Str("spearman"), Str("pearson")},
     thresh : {Number(t) : t \in 0 .. MaxFreq - 1}]

\* Correlation.__handle_omic_label
HandleOmicLabel(omic_label, corr_group_name) ==
    IF omic_label.kind = "str"
    THEN IF omic_label.v = "all" THEN DataIndex(corr_group_name)
         ELSE <<omic_label.v>>
    ELSE omic_label.v

\* str.startswith('co')
StartsWithCo(t) == Len(t) >= 2 /\ SubSeq(t, 1, 2) = "co"

\* The rows delete_nan_array and dropnan may leave of a table: any
\* selection of its rows, in their order, that is not empty.
KeptRows(rows) ==
    {SelectSeq(rows, LAMBDA r : r \in keep) :
        keep \in (SUBSET Range(rows)) \ {{}}}

\* index1.intersection(index2)
Intersection(a, b) == SelectSeq(a, LAMBDA r : r \in Range(b))

\* The algorithms __cal_cor_value runs, in its order.
CalCorValue(algorithm) ==
    (IF algorithm \in {"spearman", "all"} THEN <<"spearman">> ELSE <<>>)
        \o (IF algorithm \in {"pearson", "all"} THEN <<"pearson">> ELSE <<>>)

\* d[key] = d.get(key, value) on the keys of a dict, in insertion order.
SetDefault(keys, key) ==
    IF key \in Range(keys) THEN keys ELSE Append(keys, key)

\* d[key] = value
SetKey(keys, key) == SetDefault(keys, key)

CorrMode(n1, n2, cal_type) ==
    IF Min2(n1, n2) = 1 THEN "one_vs_many"
    ELSE IF StartsWithCo(cal_type) THEN "corresponding"
    ELSE "cross"

\* Lines 717-720 with only the table names exchanged.
SwapInputs_NamesOnly(c, p1, p2) ==
    IF Len(p2) < Len(p1)
    THEN [name1 |-> c.name2.v, name2 |-> c.name1.v,
          element1 |-> c.element1, element2 |-> c.element2,
          pre_element1 |-> p2, pre_element2 |-> p1]
    ELSE [name1 |-> c.name1.v, name2 |-> c.name2.v,
          element1 |-> c.element1, element2 |-> c.element2,
          pre_element1 |-> p1, pre_element2 |-> p2]

\* Lines 717-720: the selections, the element specifications and the table
\* names change places when the second selection is the shorter one.
SwapInputs(c, p1, p2) ==
    IF Len(p2) < Len(p1)
    THEN [name1 |-> c.name2.v, name2 |-> c.name1.v,
          element1 |-> c.element2, element2 |-> c.element1,
          pre_element1 |-> p2, pre_element2 |-> p1]
    ELSE [name1 |-> c.name1.v, name2 |-> c.name2.v,
          element1 |-> c.element1, element2 |-> c.element2,
          pre_element1 |-> p1, pre_element2 |-> p2]

\* __corr_pipeline up to the call of __cal_cor_value.
CorrCall(c) ==
    /\ corrRun.pc = "idle"
    /\ IF ~CorrCheckParams(c)
       THEN corrRun' = [pc |-> "skipped", args |-> c]
       ELSE LET p1 == HandleOmicLabel(c.element1, c.name1.v)
                p2 == HandleOmicLabel(c.element2, c.name2.v)
                sw == SwapInputs(c, p1, p2)
                pre_element1 == sw.pre_element1
                pre_element2 == sw.pre_element2
                name1 == sw.name1
                name2 == sw.name2
                co == StartsWithCo(c.cal_type.v)
                one == Min2(Len(pre_element1), Len(pre_element2)) = 1
            IN  \E k1 \in IF one THEN {pre_element1}
                          ELSE KeptRows(pre_element1),
                   k2 \in KeptRows(pre_element2) :
                    LET both == Intersection(k1, k2)
                        h1 == IF ~one /\ co THEN both ELSE k1
                        h2 == IF ~one /\ co THEN both ELSE k2
                        run == [pc |-> "cal", args |-> c,
                                mode |-> CorrMode(Len(pre_element1),
                                                  Len(pre_element2),
                                                  c.cal_type.v),
                                name1 |-> name1, name2 |-> name2,
                                element1 |-> sw.element1,
                                element2 |-> sw.element2,
                                pre_element1 |-> pre_element1,
                                pre_element2 |-> pre_element2,
                                handle_element1 |-> h1,
                                handle_element2 |-> h2,
                                todo |-> CalCorValue(c.algorithm.v),
                                corr_value |-> <<>>,
                                shape |-> <<>>,
                                frequence |-> <<>>,
                                has_index |-> FALSE,
                                corr_index |-> <<>>,
                                built |-> FALSE,
                                table_index |-> <<>>,
                                table_columns |-> <<>>,
                                error |-> "none", at |-> "none"]
                    IN  IF ~one /\ co /\ Len(both) = 0
                        THEN corrRun' = [run EXCEPT !.pc = "raised",
                                             !.error = "ValueError",
                                             !.at = "__corr_pipeline"]
                        ELSE corrRun' = run
    /\ UNCHANGED <<loaderVars, analysisVars, vif, scaled, regRun, enr>>

\* The values core_corr reports as count / count_nonzero, one per row of
\* the second matrix.
Frequences(handle_element2) ==
    [1 .. Len(handle_element2) -> 0 .. MaxFreq]

\* np.apply_along_axis(fdr, 1, prob, ...)[:, 1][0]: of the corrected
\* p-values, one row per row of prob, the first row is kept.
FdrShape(prob_shape) == <<1, prob_shape[2]>>

\* __corr_func(algorithm, ...), one call of it; after the last one
\* __corr_pipeline goes on to __corr_table.
CorrFunc ==
    /\ corrRun.pc = "cal"
    /\ Len(corrRun.todo) > 0
    /\ LET algorithm == Head(corrRun.todo)
           corr_name == IF algorithm = "spearman" THEN algorithm \o "_rho"
                        ELSE algorithm \o "_corr"
           co == StartsWithCo(corrRun.args.cal_type.v)
           tensor == /\ Len(corrRun.handle_element1) > 1
                     /\ Len(corrRun.handle_element2) > 1
                     /\ ~co
           corr_shape == <<IF tensor THEN Len(corrRun.handle_element1)
                           ELSE 1,
                           Len(corrRun.handle_element2)>>
           after(run) ==
               LET v1 == SetKey(SetKey(run.corr_value, corr_name),
                                algorithm \o "_pvalues")
                   s1 == (corr_name :> corr_shape)
                             @@ ((algorithm \o "_pvalues") :> corr_shape)
                             @@ run.shape
               IN  IF corrRun.args.fdr_type.v = "global"
                   THEN \* prob.faltten()
                        [run EXCEPT !.pc = "raised", !.corr_value = v1,
                                    !.shape = s1,
                                    !.error = "AttributeError",
                                    !.at = "__corr_func"]
                   ELSE [run EXCEPT
                            !.corr_value = SetKey(v1, algorithm \o "_fdr"),
                            !.shape = ((algorithm \o "_fdr")
                                          :> FdrShape(corr_shape)) @@ s1,
                            !.todo = Tail(@),
                            !.pc = IF Len(Tail(run.todo)) = 0 THEN "table"
                                   ELSE "cal"]
       IN  IF tensor
           THEN corrRun' = after(corrRun)
           ELSE IF co
           THEN \* self._corr_value['frequence'] of a dict without that key
                corrRun' = [corrRun EXCEPT
                    !.pc = "raised",
                    !.corr_value =
                        SetDefault(SetDefault(SetDefault(@, "count"),
                                       "frequence_" \o corrRun.name1),
                                   "frequence_" \o corrRun.name2),
                    !.error = "KeyError", !.at = "__corr_func"]
           ELSE \E f \in Frequences(corrRun.handle_element2) :
                LET frequence == IF "frequence" \in Range(corrRun.corr_value)
                                 THEN corrRun.frequence ELSE f
                IN  corrRun' = after([corrRun EXCEPT
                        !.corr_value =
                            SetDefault(SetDefault(@, "count"), "frequence"),
                        !.frequence = frequence,
                        !.has_index = TRUE,
                        !.corr_index =
                            [i \in DOMAIN frequence |->
                                frequence[i] > corrRun.args.thresh.v]])
    /\ UNCHANGED <<loaderVars, analysisVars, vif, scaled, regRun, enr>>

\* Correlation.__corr_table. Each value of _corr_value of a run on two
\* sides of several elements is a matrix of one row per element of the
\* first side, so the stacked values have more columns than there are keys
\* and pd.DataFrame rejects the shape.
CorrTable ==
    /\ corrRun.pc = "table"
    /\ LET n1 == Len(corrRun.handle_element1)
           n2 == Len(corrRun.handle_element2)
       IN  IF ~((n1 = 1 \/ n2 = 1)
                  \/ Lower(corrRun.args.fdr_type.v) = "local")
           THEN corrRun' = [corrRun EXCEPT !.pc = "raised",
                                !.error = "MethodError",
                                !.at = "__corr_table"]
           ELSE IF n1 > 1 /\ n2 > 1
           THEN corrRun' = [corrRun EXCEPT !.pc = "raised",
                                !.error = "ValueError",
                                !.at = "__corr_table"]
           ELSE corrRun' = [corrRun EXCEPT
                    !.pc = "done", !.built = TRUE,
                    !.table_index = IF n2 >= n1
                                    THEN corrRun.handle_element2
                                    ELSE corrRun.handle_element1,
                    !.table_columns = corrRun.corr_value]
    /\ UNCHANGED <<loaderVars, analysisVars, vif, scaled, regRun, enr>>

CorrNext ==
    \/ \E c \in CorrArgs : CorrCall(c)
    \/ CorrFunc
    \/ CorrTable

SpecCorr == ToolInit /\ [][CorrNext]_vars

\* ----------------------------------------------------------------------
\* Claims about the correlation pipeline
\* ----------------------------------------------------------------------

CorrEnded ==
    \/ corrRun.pc = "done"
    \/ corrRun.pc = "raised" /\ corrRun.at # "__corr_pipeline"

ManyVsMany ==
    /\ Len(corrRun.handle_element1) > 1
    /\ Len(corrRun.handle_element2) > 1

\* C15: with fdr_type 'global' and more than one element on both sides the
\* correlation pipeline raises MethodError at table assembly; a one-vs-many
\* run, and a run with fdr_type 'local', assembles a single results table.
C15_GlobalManyVsManyRaisesMethodError ==
    CorrEnded =>
        IF ManyVsMany /\ corrRun.args.fdr_type.v = "global"
        THEN corrRun.error = "MethodError" /\ corrRun.at = "__corr_table"
        ELSE (~ManyVsMany \/ corrRun.args.fdr_type.v = "local") =>
                 (corrRun.pc = "done" /\ corrRun.built)

\* C16: in every correlation mode a completed run has recorded the frequency
\* of every comparison and the mask of the comparisons above the threshold,
\* and the comparisons below the threshold are still rows of the results.
C16_FrequencyAndMaskRecorded ==
    (corrRun.pc \in {"table", "done"}) =>
        /\ "frequence" \in Range(corrRun.corr_value)
        /\ corrRun.has_index
        /\ DOMAIN corrRun.corr_index = DOMAIN corrRun.handle_element2
        /\ \A i \in DOMAIN corrRun.corr_index :
               corrRun.corr_index[i] =
                   (corrRun.frequence[i] > corrRun.args.thresh.v)
        /\ corrRun.pc = "done" =>
               corrRun.table_index = corrRun.handle_element2

\* ======================================================================
\* Regression: __reg_pipeline, __reg_fit, __reg_table
\* ======================================================================

\* The most outcome columns of a regression run.
MaxOutcomes == 2

\* The columns of _reg_y_df and of _reg_x_df.
Outcomes == {"y" \o ToString(i) : i \in 1 .. MaxOutcomes}
RegPredictors == <<"x1", "x2">>

\* The output lists of the runs.
RegOutputs ==
    {<<"params", "pvalues">>, <<"params">>, <<"rsquared">>, <<"eta">>,
     <<"params", "eta">>}

\* The arguments of a run, the outcome columns it finds, and what the
\* fitting library does with them: the outcomes whose fit raises, and the
\* fitted models anova_lm raises on.
RegArgs ==
    {a \in [y : {q \in SeqsUpTo(Outcomes, MaxOutcomes) : Len(q) > 0},
            fit_raises : SUBSET Outcomes,
            anova_raises : SUBSET Outcomes,
            anova : BOOLEAN, const : BOOLEAN,
            output : RegOutputs] :
        /\ a.fit_raises \subseteq Range(a.y)
        /\ a.anova_raises \subseteq (Range(a.y) \ a.fit_raises)
        /\ ~a.anova => a.anova_raises = {}}

\* No model has been bound to the local variable model.
Unbound == ""

\* The entry of reg_model under a name, and reg_model with one key of the
\* entry set: a defaultdict(dict) makes the entry when it is first read.
RegEntry(reg_model, name) ==
    IF \E k \in DOMAIN reg_model : reg_model[k].name = name
    THEN reg_model[CHOOSE k \in DOMAIN reg_model : reg_model[k].name = name]
    ELSE [name |-> name, model |-> Unbound, anova |-> Unbound]

SetEntry(reg_model, e) ==
    IF \E k \in DOMAIN reg_model : reg_model[k].name = e.name
    THEN [k \in DOMAIN reg_model |->
             IF reg_model[k].name = e.name THEN e ELSE reg_model[k]]
    ELSE Append(reg_model, e)

\* The index of model.params and model.pvalues, and of the anova table
\* without its last row.
ParamTerms(const) ==
    (IF const THEN <<"Intercept">> ELSE <<>>) \o RegPredictors
AnovaTerms == RegPredictors

\* outname_mapping.get(output, output)
OutName(output) == IF output = "params" THEN "coef" ELSE output

\* x + '_{}'.format(...): a column name, kept as its two parts.
ColumnName(x, outname) == [head |-> x, tail |-> outname]

\* The column names of the block of one output kind, named after the
\* outcome instead of the term.
BlockColumns_ByOutcome(output, const, names) ==
    [k \in DOMAIN names |-> ColumnName(names[k], output)]

\* The column names of the block of one output kind.
BlockColumns(output, const, names) ==
    LET heads == IF output = "eta" THEN AnovaTerms
                 ELSE IF output \in {"params", "pvalues"}
                 THEN ParamTerms(const)
                 ELSE <<"model">>
    IN  [k \in DOMAIN heads |-> ColumnName(heads[k], OutName(output))]

\* The names of out_dict for one output kind.
OutDict(output, reg_model) ==
    LET with == SelectSeq(reg_model,
                   LAMBDA e : IF output = "eta" THEN e.anova # Unbound
                              ELSE TRUE)
    IN  [k \in DOMAIN with |-> with[k].name]

\* Regression.__reg_table, from the output kind at position k on.
RECURSIVE RegTableFrom(_, _, _, _, _)
RegTableFrom(k, output, const, reg_model, table) ==
    IF k > Len(output) THEN [table EXCEPT !.error = "none"]
    ELSE IF output[k] # "eta"
            /\ \E j \in DOMAIN reg_model : reg_model[j].model = Unbound
    THEN [table EXCEPT !.error = "KeyError"]
    ELSE LET names == OutDict(output[k], reg_model)
         IN  IF Len(names) = 0
             THEN [table EXCEPT !.error = "IndexError"]
             ELSE RegTableFrom(k + 1, output, const, reg_model,
                      [table EXCEPT
                          !.rows = @ \cup Range(names),
                          !.columns = @ \o BlockColumns(output[k], const,
                                                        names),
                          !.blocks = Append(@, [output |-> output[k],
                                                rows |-> Range(names)])])

EmptyTable ==
    [rows |-> {}, columns |-> <<>>, blocks |-> <<>>, error |-> "none"]

RegTable(output, const, reg_model) ==
    RegTableFrom(1, output, const, reg_model, EmptyTable)

\* Regression.__init__ with x and y given, up to the loop of __reg_pipeline.
RegCall(a) ==
    /\ regRun.pc = "idle"
    /\ regRun' = [pc |-> "fit", args |-> a, output |-> a.output,
                  todo |-> a.y, model |-> Unbound, reg_model |-> <<>>,
                  table |-> EmptyTable, tables |-> 0, error |-> "none"]
    /\ UNCHANGED <<loaderVars, analysisVars, vif, scaled, corrRun, enr>>

\* One turn of the loop over the outcome columns; after the last one,
\* __reg_table.
RegFit ==
    /\ regRun.pc = "fit"
    /\ LET i == Head(regRun.todo)
           a == regRun.args
           fitted == i \notin a.fit_raises
           model == IF fitted THEN i ELSE regRun.model
           m1 == IF fitted
                 THEN SetEntry(regRun.reg_model,
                          [RegEntry(regRun.reg_model, i) EXCEPT !.model = i])
                 ELSE regRun.reg_model
           m2 == IF a.anova /\ model # Unbound /\ model \notin a.anova_raises
                 THEN SetEntry(m1, [RegEntry(m1, i) EXCEPT !.anova = model])
                 ELSE m1
       IN  IF Len(regRun.todo) > 1
           THEN regRun' = [regRun EXCEPT !.todo = Tail(@), !.model = model,
                                          !.reg_model = m2]
           ELSE \E t \in {RegTable(regRun.output, a.const, m2)} :
                regRun' = [regRun EXCEPT
                    !.todo = <<>>, !.model = model, !.reg_model = m2,
                    !.table = t, !.tables = 1, !.error = t.error,
                    !.pc = IF t.error = "none" THEN "done" ELSE "raised"]
    /\ UNCHANGED <<loaderVars, analysisVars, vif, scaled, corrRun, enr>>

\* set_param('reg', output=...): the table is built again from the models.
RegSetOutput(output) ==
    /\ regRun.pc = "done"
    /\ regRun.tables = 1
    /\ \E t \in {RegTable(output, regRun.args.const, regRun.reg_model)} :
           regRun' = [regRun EXCEPT
               !.output = output, !.table = t, !.tables = 2,
               !.error = t.error,
               !.pc = IF t.error = "none" THEN "done" ELSE "raised"]
    /\ UNCHANGED <<loaderVars, analysisVars, vif, scaled, corrRun, enr>>

RegNext ==
    \/ \E a \in RegArgs : RegCall(a)
    \/ RegFit
    \/ \E output \in RegOutputs : RegSetOutput(output)

SpecReg == ToolInit /\ [][RegNext]_vars

\* ----------------------------------------------------------------------
\* Claims about the regression pipeline
\* ----------------------------------------------------------------------

RegEnded == regRun.pc \in {"done", "raised"} /\ regRun.tables = 1

SomeFitFailed == regRun.args.fit_raises # {}

\* C17: when the fit of one outcome column fails, the regression pipeline
\* still completes without raising, and its table has an entry for every
\* outcome whose fit succeeded and none for the failed one, with the ANOVA
\* option and without it.
C17_FitFailureSkipped ==
    (RegEnded /\ SomeFitFailed
        /\ ("eta" \in Range(regRun.output) => regRun.args.anova)) =>
        /\ regRun.pc = "done"
        /\ \A b \in Range(regRun.table.blocks) :
               b.rows \cap regRun.args.fit_raises = {}
        /\ \A y \in Range(regRun.args.y) \ regRun.args.fit_raises :
               y \in regRun.table.rows

MaxEnrichCalls == 3

\* The over-representation tools, and the table types of the callers.
OraTools == {"gprofiler", "clusterprofiler"}
TableTypes == {"group", "corr", "reg", "plot"}

\* No result is stored under a name.
NoResult == "none"

\* The term-name column, the gene column and the separator of the table an
\* adapter produces.
Schema(table_name) ==
    CASE table_name = "clusterprofiler" -> <<"Description", "geneID", "/">>
      [] table_name = "gprofiler" -> <<"name", "intersections", "">>
      [] table_name = "gsea_" -> <<"Term", "Lead_genes", ";">>

\* Analysis.__init__ line 1007, before any enrichment.
EnrichInit(n) ==
    [pc |-> "ready", calls |-> n,
     enrich_tool |-> [k \in {} |-> ""],
     ora |-> NoResult, gsea_ |-> NoResult,
     op |-> "init", name |-> "", error |-> "none"]

EnrichStart ==
    /\ enr.pc = "idle"
    /\ enr' = EnrichInit(0)
    /\ UNCHANGED <<loaderVars, analysisVars, vif, scaled, corrRun, regRun>>

\* d[k] = v on a dict
Put(d, k, v) == [x \in DOMAIN d \cup {k} |-> IF x = k THEN v ELSE d[x]]

\* Analysis.enrich; runs tells whether the queries of the tool succeed.
Enrich(table_type, tool, runs) ==
    /\ enr.pc = "ready"
    /\ enr.calls < MaxEnrichCalls
    /\ IF table_type \notin {"group", "corr", "reg"}
       THEN enr' = [enr EXCEPT !.calls = @ + 1, !.op = "enrich",
                               !.name = "ora", !.error = "ValueError"]
       ELSE IF ~runs
       THEN enr' = [enr EXCEPT !.calls = @ + 1, !.op = "enrich",
                               !.name = "ora",
                               !.enrich_tool = Put(@, "ora", tool),
                               !.error = "Exception"]
       ELSE enr' = [enr EXCEPT !.calls = @ + 1, !.op = "enrich",
                               !.name = "ora",
                               !.enrich_tool = Put(@, "ora", tool),
                               !.ora = tool, !.error = "none"]
    /\ UNCHANGED <<loaderVars, analysisVars, vif, scaled, corrRun, regRun>>

\* Analysis.gsea; db tells whether gene sets were named, runs whether the
\* analyses of gseapy succeed.
Gsea(table_type, db, runs) ==
    /\ enr.pc = "ready"
    /\ enr.calls < MaxEnrichCalls
    /\ LET tool == Put(enr.enrich_tool, "gsea_", "gsea_")
       IN  IF ~db
           THEN enr' = [enr EXCEPT !.calls = @ + 1, !.op = "gsea",
                                   !.name = "gsea_", !.enrich_tool = tool,
                                   !.error = "ValueError"]
           ELSE IF table_type = "group"
           THEN enr' = [enr EXCEPT !.calls = @ + 1, !.op = "gsea",
                                   !.name = "gsea_", !.enrich_tool = tool,
                                   !.gsea_ = IF runs THEN "gsea_" ELSE @,
                                   !.error = IF runs THEN "none"
                                             ELSE "Exception"]
           ELSE IF table_type \notin {"corr", "reg"}
           THEN \* predata is read before it is bound
                enr' = [enr EXCEPT !.calls = @ + 1, !.op = "gsea",
                                   !.name = "gsea_", !.enrich_tool = tool,
                                   !.error = "UnboundLocalError"]
           ELSE enr' = [enr EXCEPT !.calls = @ + 1, !.op = "gsea",
                                   !.name = "gsea_", !.enrich_tool = tool,
                                   !.gsea_ = IF runs THEN "gsea_" ELSE "empty",
                                   !.error = IF runs THEN "none"
                                             ELSE "Exception"]
    /\ UNCHANGED <<loaderVars, analysisVars, vif, scaled, corrRun, regRun>>

\* The columns of the result stored under a name.
StoredSchema(stored) ==
    IF stored \in OraTools \cup {"gsea_"} THEN Schema(stored) ELSE <<>>

\* Analysis.get_gene_from_enrichment({enrich_name: elements})
GetGeneFromEnrichment(enrich_name) ==
    /\ enr.pc = "ready"
    /\ enr.calls < MaxEnrichCalls
    /\ LET stored == IF enrich_name = "ora" THEN enr.ora ELSE enr.gsea_
       IN  enr' = [enr EXCEPT
               !.calls = @ + 1, !.op = "get", !.name = enrich_name,
               !.error =
                   IF enrich_name \notin DOMAIN enr.enrich_tool
                   THEN "KeyError"
                   ELSE IF stored = NoResult THEN "AttributeError"
                   ELSE IF StoredSchema(stored)
                             # Schema(enr.enrich_tool[enrich_name])
                   THEN "KeyError"
                   ELSE "none"]
    /\ UNCHANGED <<loaderVars, analysisVars, vif, scaled, corrRun, regRun>>

EnrichNext ==
    \/ EnrichStart
    \/ \E table_type \in TableTypes, tool \in OraTools, runs \in BOOLEAN :
           Enrich(table_type, tool, runs)
    \/ \E table_type \in TableTypes, db \in BOOLEAN, runs \in BOOLEAN :
           Gsea(table_type, db, runs)
    \/ \E enrich_name \in {"ora", "gsea_"} :
           GetGeneFromEnrichment(enrich_name)

SpecEnrich == ToolInit /\ [][EnrichNext]_vars

\* ----------------------------------------------------------------------
\* Claims about the enrichment adapters
\* ----------------------------------------------------------------------

\* C19: after any sequence of enrich and gsea calls, failing ones included,
\* the adapter recorded for a result name is the adapter that produced the
\* result stored under that name, so that get_gene_from_enrichment reads the
\* result with its own schema.
C19_RecordMatchesStoredResult ==
    (enr.pc = "ready") =>
        /\ ("ora" \in DOMAIN enr.enrich_tool /\ enr.ora # NoResult) =>
               (enr.enrich_tool["ora"] = enr.ora)
        /\ (enr.op = "get" /\ enr.name = "ora" /\ enr.ora # NoResult
               /\ "ora" \in DOMAIN enr.enrich_tool) =>
               (enr.error = "none")

\* ----------------------------------------------------------------------
\* Claims about the validation of set_param
\* ----------------------------------------------------------------------

SetParamCalled == call.op = "set_param" /\ tmp_dict # Unset

\* The name is one of group, corr, reg whatever its case, and every keyword
\* is a key of that pipeline.
WellFormedCall ==
    /\ Lower(call.fn) \in BundleNames
    /\ DOMAIN call.kw \subseteq DOMAIN tmp_dict[Lower(call.fn)]

\* The keyword arguments of the call are the parameters of the pipeline.
Applied ==
    LET b == Lower(call.fn)
    IN  \A k \in DOMAIN call.kw :
            IF b = "group"
            THEN PyEq(tmp_dict.group[k], MapThresh(k, call.kw[k]))
            ELSE IF b = "corr" THEN PyEq(inst.corr[k], call.kw[k])
            ELSE PyEq(inst.reg[k], call.kw[k])

\* C20: set_param raises ValueError when the function name is not one of
\* group, corr, reg, compared without regard to case, or when a keyword is
\* not in the key set of that pipeline; every other call is accepted and
\* applied to the named pipeline.
C20_SetParamValidates ==
    SetParamCalled =>
        IF WellFormedCall
        THEN Applied
        ELSE call.outcome = "ValueError"

\* ----------------------------------------------------------------------
\* Claims about the inputs and the outputs of a correlation run
\* ----------------------------------------------------------------------

CorrResolved == corrRun.pc \in {"cal", "table", "done", "raised"}

\* The table name n is used with the element specification e it was given
\* for.
GivenPair(n, e) ==
    \/ n = corrRun.args.name1.v /\ PyEq(e, corrRun.args.element1)
    \/ n = corrRun.args.name2.v /\ PyEq(e, corrRun.args.element2)

\* C21: once the correlation pipeline has resolved the two selections, the
\* selection of element1 is never the larger one, and the table names, the
\* element specifications and the selections have changed places together:
\* every element specification is still paired with the table it was given
\* for, and every selection is the selection of its specification.
C21_SwapKeepsPairs ==
    CorrResolved =>
        /\ Len(corrRun.pre_element1) <= Len(corrRun.pre_element2)
        /\ GivenPair(corrRun.name1, corrRun.element1)
        /\ GivenPair(corrRun.name2, corrRun.element2)
        /\ {corrRun.name1, corrRun.name2} =
               {corrRun.args.name1.v, corrRun.args.name2.v}
        /\ corrRun.pre_element1 =
               HandleOmicLabel(corrRun.element1, corrRun.name1)
        /\ corrRun.pre_element2 =
               HandleOmicLabel(corrRun.element2, corrRun.name2)

C21_Witness ==
    /\ CorrResolved
    /\ corrRun.name1 = "rna"
    /\ corrRun.args.name1.v = "prot"
    /\ Len(corrRun.pre_element1) < Len(corrRun.pre_element2)

\* The keys __corr_func stores for an algorithm.
CoefficientKey(alg) ==
    IF alg = "spearman" THEN "spearman_rho" ELSE alg \o "_corr"

Requested(alg) == corrRun.args.algorithm.v \in {alg, "all"}

\* C22: a correlation run whose values are all computed holds, for every
\* requested algorithm, a coefficient, a p-value and an FDR-corrected p-value
\* for every comparison: the FDR output has one value for each p-value of
\* each row; and it holds no entry for an algorithm that was not requested.
C22_ThreeValuesPerComparison ==
    (corrRun.pc \in {"table", "done"}) =>
        \A alg \in {"spearman", "pearson"} :
            IF Requested(alg)
            THEN /\ {CoefficientKey(alg), alg \o "_pvalues", alg \o "_fdr"}
                        \subseteq Range(corrRun.corr_value)
                 /\ corrRun.shape[alg \o "_pvalues"] =
                        corrRun.shape[CoefficientKey(alg)]
                 /\ corrRun.shape[alg \o "_fdr"] =
                        corrRun.shape[alg \o "_pvalues"]
            ELSE {CoefficientKey(alg), alg \o "_pvalues", alg \o "_fdr"}
                     \cap Range(corrRun.corr_value) = {}

\* ======================================================================
\* Regression.__reg_fit: the formula of a fit
\* ======================================================================

\* The longest predictor name, in characters, and the most predictors.
MaxNameLen == 2
MaxPredictors == 2

\* Strings are sequences of characters here.
NameLetters == {"a", "b"}

PredictorNames ==
    UNION {[1 .. k -> NameLetters] : k \in 1 .. MaxNameLen}

\* self._reg_x_df.columns
PredictorLists ==
    {q \in UNION {[1 .. k -> PredictorNames] : k \in 1 .. MaxPredictors} :
        Injective(q)}

\* sep.join(parts)
RECURSIVE Join(_, _)
Join(sep, parts) ==
    IF Len(parts) = 0 THEN <<>>
    ELSE IF Len(parts) = 1 THEN parts[1]
    ELSE parts[1] \o sep \o Join(sep, Tail(parts))

\* str.replace(old, new): every occurrence of old, from the left, without
\* overlap.
RECURSIVE Replace(_, _, _)
Replace(str, old, new) ==
    IF Len(str) < Len(old) THEN str
    ELSE IF SubSeq(str, 1, Len(old)) = old
    THEN new \o Replace(SubSeq(str, Len(old) + 1, Len(str)), old, new)
    ELSE <<Head(str)>> \o Replace(Tail(str), old, new)

\* ' C({}) '.format(column)
Wrapped(column) == <<" ", "C", "(">> \o column \o <<")", " ">>

\* The loop over categorical_columns.
RECURSIVE WrapColumns(_, _)
WrapColumns(formula, categorical_columns) ==
    IF Len(categorical_columns) = 0 THEN formula
    ELSE WrapColumns(Replace(formula,
                             <<" ">> \o Head(categorical_columns),
                             Wrapped(Head(categorical_columns))),
                     Tail(categorical_columns))

\* The formula __reg_fit hands to the regressor. categorical_columns are the
\* columns of fewer than 8 distinct values under 'auto', or the list given;
\* they are empty when categorical is falsy.
RegFormula(y, columns, const, categorical_columns) ==
    LET formula == y \o <<" ", "~", " ">>
                     \o Join(<<" ", "+", " ">>, columns)
                     \o (IF const THEN <<>> ELSE <<"-", "1">>)
    IN  WrapColumns(formula, categorical_columns)

\* The categorical settings of a run on the columns: none, 'auto' with the
\* columns that have fewer than 8 distinct values (in the order of the
\* columns), or a list of columns (in any order).
Categoricals(columns) ==
    {[kind |-> "none", columns |-> <<>>]}
        \cup {[kind |-> "auto",
               columns |-> SelectSeq(columns, LAMBDA c : c \in few)] :
                  few \in SUBSET Range(columns)}
        \cup {[kind |-> "list", columns |-> q] :
                  q \in {q \in SeqsUpTo(Range(columns), MaxPredictors) :
                            Len(q) > 0}}

RegFitFormula(columns, const, categorical) ==
    /\ regRun.pc = "idle"
    /\ regRun' = [pc |-> "formula", columns |-> columns, const |-> const,
                  categorical |-> categorical,
                  formula |-> RegFormula(<<"y">>, columns, const,
                                         categorical.columns)]
    /\ UNCHANGED <<loaderVars, analysisVars, vif, scaled, corrRun, enr>>

FormulaNext ==
    \E columns \in PredictorLists, const \in BOOLEAN :
        \E categorical \in Categoricals(columns) :
            RegFitFormula(columns, const, categorical)

SpecFormula == ToolInit /\ [][FormulaNext]_vars

\* ----------------------------------------------------------------------
\* Claims about the formula
\* ----------------------------------------------------------------------

\* A formula without its blanks.
Unspaced(str) == SelectSeq(str, LAMBDA ch : ch # " ")

\* The terms of a formula in which exactly the categorical columns are
\* wrapped.
ExpectedTerms(columns, categorical_columns) ==
    [k \in DOMAIN columns |->
        IF columns[k] \in Range(categorical_columns)
        THEN <<"C", "(">> \o columns[k] \o <<")">>
        ELSE columns[k]]

\* C23: in the formula of a fit exactly the categorical predictors are
\* wrapped as C(<column>) and every other predictor appears once and
\* unchanged, whatever the names of the predictor columns, names that are
\* prefixes of one another included.
C23_ExactlyCategoricalsWrapped ==
    (regRun.pc = "formula") =>
        Unspaced(regRun.formula) =
            <<"y", "~">>
                \o Join(<<"+">>, ExpectedTerms(regRun.columns,
                                               regRun.categorical.columns))
                \o (IF regRun.const THEN <<>> ELSE <<"-", "1">>)

\* ======================================================================
\* Regression.__reg_table: the output 'eta'
\* ======================================================================

\* The largest sum of squares of a row of an ANOVA table.
MaxSumSq == 3

\* The rows of the table anova_lm(model, typ=2) returns: the terms of the
\* model, then the residual.
AnovaRows == AnovaTerms \o <<"Residual">>

FAdd(a, b) == FSub(a, FNeg(b))

\* The column F of anova_lm: the mean square of a term over the mean square
\* of the residual, and no value in the residual row.
AnovaF(sum_sq, df) ==
    [i \in DOMAIN AnovaRows |->
        IF i = Len(AnovaRows) THEN NaN
        ELSE Frac(sum_sq[i] * df[Len(AnovaRows)],
                  df[i] * sum_sq[Len(AnovaRows)])]

\* Series.sum(): the sum of the values that are not NaN.
RECURSIVE NanSum(_)
NanSum(col) ==
    IF Len(col) = 0 THEN Num(0)
    ELSE IF Head(col).k = "nan" THEN NanSum(Tail(col))
    ELSE FAdd(Head(col), NanSum(Tail(col)))

\* tmp['F'] / tmp['F'].sum()
Normalised(col) == [i \in DOMAIN col |-> FDiv(col[i], NanSum(col))]

\* reg_model[i]['anova'] = anova_lm(model, typ=2)
RegAnova(sum_sq, df) ==
    /\ regRun.pc = "idle"
    /\ regRun' = [pc |-> "anova", sum_sq |-> sum_sq, df |-> df,
                  F |-> AnovaF(sum_sq, df), eta |-> <<>>, tables |-> 0]
    /\ UNCHANGED <<loaderVars, analysisVars, vif, scaled, corrRun, enr>>

\* __reg_table for the output 'eta' and one outcome: the column F of the
\* stored table is overwritten, and all of it but the last row is reported.
RegTableEta ==
    /\ regRun.pc \in {"anova", "table", "eta"}
    /\ regRun.tables < 2
    /\ \E f \in {Normalised(regRun.F)} :
           regRun' = [regRun EXCEPT !.pc = "eta", !.F = f,
                                    !.eta = SubSeq(f, 1, Len(f) - 1),
                                    !.tables = @ + 1]
    /\ UNCHANGED <<loaderVars, analysisVars, vif, scaled, corrRun, enr>>

\* __reg_table at the end of a pipeline whose output list has no 'eta': the
\* table is built from the fitted models and the ANOVA table is not read.
RegTableParams ==
    /\ regRun.pc = "anova"
    /\ regRun' = [regRun EXCEPT !.pc = "table", !.tables = 1]
    /\ UNCHANGED <<loaderVars, analysisVars, vif, scaled, corrRun, enr>>

EtaNext ==
    \/ \E sum_sq \in [DOMAIN AnovaRows -> 1 .. MaxSumSq],
          df \in [DOMAIN AnovaRows -> {1, 2}] : RegAnova(sum_sq, df)
    \/ RegTableParams
    \/ RegTableEta

SpecEta == ToolInit /\ [][EtaNext]_vars

\* ----------------------------------------------------------------------
\* Claims about the output 'eta'
\* ----------------------------------------------------------------------

RECURSIVE SeqSum(_)
SeqSum(q) == IF Len(q) = 0 THEN 0 ELSE Head(q) + SeqSum(Tail(q))

\* C24: the value reported under 'eta' for a term of the model is the sum of
\* squares of the term divided by the total sum of squares of the ANOVA
\* table of the outcome, and nothing is reported for the residual row.
C24_EtaIsShareOfSumOfSquares ==
    (regRun.pc = "eta") =>
        /\ Len(regRun.eta) = Len(AnovaTerms)
        /\ \A i \in DOMAIN regRun.eta :
               regRun.eta[i] = Frac(regRun.sum_sq[i], SeqSum(regRun.sum_sq))

\* ----------------------------------------------------------------------
\* Claims about the groups of a run
\* ----------------------------------------------------------------------

\* A call ran the group pipeline to its end.
GroupsBuilt ==
    /\ call.op # "none"
    /\ call.ran
    /\ call.outcome = "ok"
    /\ inst.kind = "analysis"

\* The samples that have a label in the labels of the run.
LabelledSamples == {inst.group_file.v[j].s : j \in DOMAIN inst.group_file.v}

\* The group matrices a column of the working dataset belongs to.
MatricesOf(c) == {g \in DOMAIN inst.group.v : c \in Range(inst.group.v[g])}

---------------------------------------------------------------------------
(* Analysis.get_param after set_param *)

\* A call of set_param that returned.
SetParamReturned ==
    /\ call.op = "set_param"
    /\ call.outcome = "ok"
    /\ inst.kind = "analysis"

\* The bundle of one pipeline reports the attributes of the instance.
BundleCurrent(fn) ==
    IF fn = "group"
    THEN \A k \in GroupKeys : PyEq(GetParam.group[k], inst[k])
    ELSE \A k \in DOMAIN inst[fn] : PyEq(GetParam[fn][k], inst[fn][k])

\* C26: after a call of set_param that returned, get_param reports, for
\* every pipeline and every parameter, the value the instance holds for it.
C26_GetParamReportsCurrent ==
    SetParamReturned => \A fn \in BundleNames : BundleCurrent(fn)

---------------------------------------------------------------------------
(* A call of set_param that raises *)

\* Two values of one attribute are the same value.
SameValue(a, b) == a.kind = b.kind /\ a = b

\* The step is a call of set_param that raised.
SetParamRaised ==
    /\ nCalls' = nCalls + 1
    /\ call'.op = "set_param"
    /\ call'.outcome # "ok"

\* The step is a call the checks of lines 1014-1026 rejected.
RejectedByValidation ==
    /\ SetParamRaised
    /\ \/ Lower(call'.fn) \notin BundleNames
       \/ call'.fn \notin BundleNames
       \/ DOMAIN call'.kw \ DOMAIN tmp_dict[call'.fn] # {}

\* The step leaves the parameters of the instance as they were.
ParametersKept ==
    /\ \A k \in GroupKeys : SameValue(inst'[k], inst[k])
    /\ \A fn \in {"corr", "reg"} :
           \A k \in DOMAIN inst[fn] : SameValue(inst'[fn][k], inst[fn][k])

\* The step leaves the bundles of get_param as they were.
BundleKept ==
    \A fn \in BundleNames :
       \A k \in DOMAIN tmp_dict[fn] :
          SameValue(tmp_dict'[fn][k], tmp_dict[fn][k])

ResultNames ==
    {"group_file", "tmp_dataset", "group_values", "group", "param_values",
     "out_index", "group_table", "corr_value", "reg_model"}

\* The step leaves the results of the earlier runs as they were.
ResultsKept == \A k \in ResultNames : SameValue(inst'[k], inst[k])

\* C27: a call of set_param that raises leaves the parameters of the
\* instance, the bundles and the results of earlier runs as they were
\* before the call.
C27_RaisingSetParamChangesNothing ==
    [][SetParamRaised => ParametersKept /\ BundleKept /\ ResultsKept]_vars

---------------------------------------------------------------------------
(* The ANOVA tables of reg_model *)

\* The regression pipeline has started its loop over the outcome columns.
RegLooping == regRun.pc \in {"fit", "done", "raised"}

\* The entries of reg_model that hold an 'anova' table.
WithAnova ==
    {k \in DOMAIN regRun.reg_model : regRun.reg_model[k].anova # Unbound}

\* C28: an 'anova' entry of reg_model belongs to an outcome whose 'model'
\* entry is present, and was computed from the model of that outcome.
C28_AnovaFromOwnModel ==
    RegLooping =>
        \A k \in WithAnova :
            /\ regRun.reg_model[k].model = regRun.reg_model[k].name
            /\ regRun.reg_model[k].anova = regRun.reg_model[k].name

---------------------------------------------------------------------------
(* set_param('reg', output=...) *)

\* The step is set_param('reg', output=['eta']) on an instance whose table
\* was built before: __reg_table runs again on the stored ANOVA table.
RebuiltByOutput ==
    /\ regRun.pc \in {"table", "eta"}
    /\ regRun'.pc = "eta"
    /\ regRun'.tables = regRun.tables + 1

\* C29: set_param('reg', output=...) with output as its only keyword builds
\* the table again and leaves the stored ANOVA table of the outcome as it
\* was before the call.
C29_OutputLeavesAnovaUnchanged ==
    [][RebuiltByOutput =>
          /\ regRun'.F = regRun.F
          /\ regRun'.sum_sq = regRun.sum_sq
          /\ regRun'.df = regRun.df]_vars

---------------------------------------------------------------------------
(* set_param('group', file_type=...) *)

\* The step is a call set_param('group', file_type=f, ...).
FileTypeSet ==
    /\ nCalls' = nCalls + 1
    /\ call'.op = "set_param"
    /\ call'.fn = "group"
    /\ "file_type" \in DOMAIN call'.kw

\* C30: set_param('group', file_type=f) leaves group_name unset unless the
\* call supplies a group_name, and creates no attribute besides the
\* parameters of the group pipeline and what the pipeline derives.
C30_FileTypeResetsGroupName ==
    [][FileTypeSet =>
          /\ (call'.outcome = "ok" /\ "group_name" \notin DOMAIN call'.kw)
                 => inst'.group_name = None
          /\ inst'.junk = inst.junk]_vars

====
